---- MODULE Spec2Model ----
(***************************************************************************)
(* Keyboard gesture detection of murmur-app (ui/src-tauri/src/keyboard):   *)
(* the DoubleTapDetector and HoldDownDetector state machines, the rdev     *)
(* listener callback that dispatches on the active mode, the Both-mode     *)
(* hold-promotion timer threads, and the control operations start_listener,*)
(* stop_listener, set_target_key, set_processing and set_recording_state.  *)
(*                                                                         *)
(* Time.  An Instant is represented by the number of milliseconds that     *)
(* have elapsed since it: Instant::now() is 0, t.elapsed().as_millis() is  *)
(* the stored value, and the action Tick adds TickMs to every stored       *)
(* Instant.  A stored value stops growing once it is beyond every threshold*)
(* the code compares it with, which changes no comparison.  Option values  *)
(* are sequences: None is << >> and Some(x) is <<x>>.                      *)
(*                                                                         *)
(* Threads.  The listener callback, every promotion timer and the thread   *)
(* that issues control operations are separate threads.  A step of a thread*)
(* is one access to shared memory (one atomic operation or one mutex       *)
(* scope) together with the thread-local computation that follows it.      *)
(* Computation takes no model time: Tick is taken only when the callback   *)
(* and the control thread are between operations.  thread::sleep returns   *)
(* no earlier than asked and the scheduler may run the thread later: a     *)
(* timer whose sleep has ended runs within one tick of the clock, and once *)
(* it has begun it runs to completion before the clock advances.           *)
(***************************************************************************)
EXTENDS Integers, Sequences, FiniteSets, TLC

\* ------------------------------------------------------------ constants --
MAX_HOLD_DURATION_MS == 200
DOUBLE_TAP_WINDOW_MS == 400
COOLDOWN_MS == 50
HOLD_DOWN_COOLDOWN_MS == 50

\* ---------------------------------------------------------------- bounds --
\* granularity of the clock, in milliseconds
TickMs == 50
\* HOLD_PRESS_COUNTER stops being incremented by new work at this value
MaxCounter == 4
\* promotion timer threads alive at the same time
MaxTimers == 2
\* control operations issued in one behaviour
MaxOps == 2

\* ------------------------------------------------------------- key model --
None == << >>
Some(x) == <<x>>

\* the keys the listener delivers: two modifiers and one letter
Keys == {"ShiftLeft", "Alt", "KeyA"}

is_modifier(key) ==
    key \in {"ShiftLeft", "ShiftRight", "Alt", "AltGr",
             "ControlLeft", "ControlRight", "MetaLeft", "MetaRight"}

\* any two modifier keys are taken for the same key
is_any_modifier(a, b) == a = b \/ (is_modifier(a) /\ is_modifier(b))

is_same_modifier(a, b) == a = b

\* a string that names no hotkey falls back to the left shift key
hotkey_or_default(hotkey) ==
    CASE hotkey = "alt_l"  -> Some("Alt")
      [] hotkey = "ctrl_r" -> Some("ControlRight")
      [] OTHER             -> Some("ShiftLeft")

hotkey_to_rdev_key(hotkey) ==
    CASE hotkey = "shift_l" -> Some("ShiftLeft")
      [] hotkey = "alt_l"   -> Some("Alt")
      [] hotkey = "ctrl_r"  -> Some("ControlRight")
      [] OTHER              -> None

KeyPress(key) == [type |-> "KeyPress", key |-> key]
KeyRelease(key) == [type |-> "KeyRelease", key |-> key]
EventTypes == {KeyPress(k) : k \in Keys} \cup {KeyRelease(k) : k \in Keys}

\* a stored Instant one tick later; it stops once it has reached horizon
Later(t, horizon) == IF t >= horizon THEN t ELSE t + TickMs
LaterOpt(o, horizon) == IF o = None THEN None ELSE Some(Later(o[1], horizon))

\* ---------------------------------------------------- DoubleTapDetector --
\* the detector is left as it is, its sequence not aborted
DoubleTapDetector_keep(d) == d

DoubleTapDetector_reset(d) ==
    [d EXCEPT !.state = "Idle", !.state_entered_at = 0]

DoubleTapDetector_new ==
    [state |-> "Idle", target_key |-> None, recording |-> FALSE,
     state_entered_at |-> 0, last_fired_at |-> None]

DoubleTapDetector_set_target(d, key) ==
    DoubleTapDetector_reset([d EXCEPT !.target_key = key])

transition(d, new_state) ==
    [d EXCEPT !.state = new_state, !.state_entered_at = 0]

elapsed_ms(d) == d.state_entered_at

\* no cooldown is observed after a fire
DoubleTapDetector_no_cooldown(d) == FALSE

DoubleTapDetector_cooling_inclusive(d) ==
    IF d.last_fired_at = None THEN FALSE
    ELSE d.last_fired_at[1] <= COOLDOWN_MS

DoubleTapDetector_in_cooldown(d) ==
    IF d.last_fired_at = None THEN FALSE
    ELSE d.last_fired_at[1] < COOLDOWN_MS

\* a release exactly MAX_HOLD_DURATION_MS after the press no longer counts
tap_in_time_strict(d) == elapsed_ms(d) < MAX_HOLD_DURATION_MS

\* double_tap.rs:85,140  the key was released soon enough to count as a tap
tap_in_time(d) == elapsed_ms(d) <= MAX_HOLD_DURATION_MS

\* a hold of any length counts as too long
held_any_time(d) == TRUE

\* double_tap.rs:105,111,155,160  the key has been held too long
held_too_long(d) == elapsed_ms(d) > MAX_HOLD_DURATION_MS

\* the window for the second press expires one tick after the listener's
\* second-phase check has stopped applying
window_expired_late(d) == elapsed_ms(d) > DOUBLE_TAP_WINDOW_MS + TickMs

\* the window for the second press stays open for ever
window_never_expires(d) == FALSE

\* double_tap.rs:120  the window for the second press has expired
window_expired(d) == elapsed_ms(d) > DOUBLE_TAP_WINDOW_MS

\* a fire that leaves no trace in last_fired_at
FireUnstamped(d) == DoubleTapDetector_reset(d)

\* a fire that stamps last_fired_at and leaves the state as it is
FireKeepState(d) == [d EXCEPT !.last_fired_at = Some(0)]

\* the detector left by a fire: last_fired_at = Some(now), then reset
Fire(d) == DoubleTapDetector_reset([d EXCEPT !.last_fired_at = Some(0)])

\* handle_event: the detector after the event and the value returned
DoubleTapDetector_handle_event(d, e) ==
    LET stay == [det |-> d, fired |-> FALSE]
        to(x) == [det |-> x, fired |-> FALSE]
        target == d.target_key[1]
        isRelT == e.type = "KeyRelease" /\ is_same_modifier(e.key, target)
        isPrsT == e.type = "KeyPress" /\ is_same_modifier(e.key, target)
        isPrsLetter == e.type = "KeyPress" /\ ~is_modifier(e.key)
        timeout == IF held_too_long(d)
                   THEN to(DoubleTapDetector_reset(d)) ELSE stay
    IN  IF d.target_key = None THEN stay
        ELSE IF DoubleTapDetector_in_cooldown(d) THEN stay
        ELSE CASE d.state = "Idle" ->
                    IF isPrsT THEN to(transition(d, "WaitingFirstUp")) ELSE stay
               [] d.state = "WaitingFirstUp" ->
                    IF isRelT THEN
                        IF tap_in_time(d) THEN
                            IF d.recording
                            THEN [det |-> Fire(d), fired |-> TRUE]
                            ELSE to(transition(d, "WaitingSecondDown"))
                        ELSE to(DoubleTapDetector_reset(d))
                    ELSE IF isPrsLetter THEN to(DoubleTapDetector_reset(d))
                    ELSE timeout
               [] d.state = "WaitingSecondDown" ->
                    IF window_expired(d)
                    THEN to(DoubleTapDetector_reset(d))
                    ELSE IF isPrsT THEN to(transition(d, "WaitingSecondUp"))
                    ELSE IF e.type = "KeyPress" THEN to(DoubleTapDetector_reset(d))
                    ELSE stay
               [] d.state = "WaitingSecondUp" ->
                    IF isRelT THEN
                        IF tap_in_time(d)
                        THEN [det |-> Fire(d), fired |-> TRUE]
                        ELSE to(DoubleTapDetector_reset(d))
                    ELSE IF isPrsLetter THEN to(DoubleTapDetector_reset(d))
                    ELSE timeout

\* ----------------------------------------------------- HoldDownDetector --
HoldDownDetector_new ==
    [state |-> "Idle", target_key |-> None, last_stopped_at |-> None]

\* a rebinding that leaves a hold in progress as it is
HoldDownDetector_rebind_only(d, key) ==
    [det |-> [d EXCEPT !.target_key = key], was_held |-> d.state = "Held"]

\* set_target: the detector after the call and the value returned
HoldDownDetector_set_target(d, key) ==
    LET was_held == d.state = "Held"
        d1 == IF was_held
              THEN [d EXCEPT !.state = "Idle", !.last_stopped_at = Some(0)]
              ELSE d
    IN  [det |-> [d1 EXCEPT !.target_key = key], was_held |-> was_held]

HoldDownDetector_reset(d) == [d EXCEPT !.state = "Idle"]

\* a cooldown that never ends once a hold has stopped
HoldDownDetector_cooldown_forever(d) == d.last_stopped_at # None

\* no cooldown is observed after a Stop
HoldDownDetector_never_cooling(d) == FALSE

HoldDownDetector_in_cooldown(d) ==
    IF d.last_stopped_at = None THEN FALSE
    ELSE d.last_stopped_at[1] < HOLD_DOWN_COOLDOWN_MS

\* a Stop that leaves no trace in last_stopped_at
StoppedUnstamped(d) == [d EXCEPT !.state = "Idle"]

\* the detector left by a Stop
Stopped(d) == [d EXCEPT !.state = "Idle", !.last_stopped_at = Some(0)]

\* handle_event: the detector after the event and the HoldDownEvent returned
HoldDownDetector_handle_event(d, e) ==
    LET target == d.target_key[1]
        none == [det |-> d, result |-> "None"]
    IN  IF d.target_key = None THEN none
        ELSE IF d.state = "Idle" THEN
            IF /\ e.type = "KeyPress"
               /\ is_same_modifier(e.key, target)
               /\ ~HoldDownDetector_in_cooldown(d)
            THEN [det |-> [d EXCEPT !.state = "Held"], result |-> "Start"]
            ELSE none
        ELSE
            IF e.type = "KeyRelease" /\ is_same_modifier(e.key, target)
            THEN [det |-> Stopped(d), result |-> "Stop"]
            ELSE IF e.type = "KeyPress" /\ is_same_modifier(e.key, target)
            THEN none
            ELSE IF e.type = "KeyPress" /\ ~is_modifier(e.key)
            THEN [det |-> Stopped(d), result |-> "Stop"]
            ELSE none

\* ------------------------------------------------------------------ state --
VARIABLES
    ACTIVE_MODE,              \* Mutex<DetectorMode>
    DOUBLE_TAP_DETECTOR,      \* Mutex<Option<DoubleTapDetector>>
    HOLD_DOWN_DETECTOR,       \* Mutex<Option<HoldDownDetector>>
    HOLD_PRESS_COUNTER,       \* AtomicU64
    HOLD_PROMOTED,            \* AtomicBool
    IS_PROCESSING,            \* AtomicBool
    LISTENER_ACTIVE,          \* AtomicBool
    LISTENER_THREAD_SPAWNED,  \* AtomicBool
    cb,       \* the listener thread: position and locals of the callback
    errT,     \* a listener thread whose listen() returned Err: its position
    timers,   \* the promotion timer threads alive
    ctl,      \* the thread issuing control operations: position and locals
    emit,     \* the signal handed to the frontend by the latest step, if any
    ops,      \* the number of control operations issued so far
    scn,      \* observer: the gesture performed since the last idle state
    app       \* the recording commands: dictation status, position and guards

vars == <<ACTIVE_MODE, DOUBLE_TAP_DETECTOR, HOLD_DOWN_DETECTOR,
          HOLD_PRESS_COUNTER, HOLD_PROMOTED, IS_PROCESSING, LISTENER_ACTIVE,
          LISTENER_THREAD_SPAWNED, cb, errT, timers, ctl, emit, ops, scn,
          app>>

detectors == <<DOUBLE_TAP_DETECTOR, HOLD_DOWN_DETECTOR>>
both_state == <<HOLD_PRESS_COUNTER, HOLD_PROMOTED, IS_PROCESSING>>
listener_state == <<LISTENER_ACTIVE, LISTENER_THREAD_SPAWNED>>

DetectorModes == {"DoubleTap", "HoldDown", "Both"}

\* the callback between two events; while_processing tells whether the event
\* being handled arrived while IS_PROCESSING was set
CbFrame(pc) ==
    [pc |-> pc, event |-> None, while_processing |-> FALSE,
     dtap_second_phase |-> FALSE, hold_result |-> "None", dtap_fired |-> FALSE,
     promoted |-> FALSE]

\* the control thread between two operations; during start_listener switched
\* tells whether the call changes the mode of a listener that is running and
\* counter holds HOLD_PRESS_COUNTER as it was when the call began
CtlIdle ==
    [pc |-> "idle", target |-> None, mode |-> "DoubleTap", was_held |-> FALSE,
     from_both |-> FALSE, switched |-> FALSE, counter |-> 0]

\* no recording command is running and nothing is being dictated; guard and
\* pipeline_guard are the IdleGuard of the command and the one of
\* run_transcription_pipeline, entered and exited tell whether the command
\* running has called set_processing(true) and, after it, set_processing(false),
\* and result is what the latest command returned
AppIdle ==
    [pc |-> "idle", status |-> "Idle", cmd |-> "none", guard |-> None,
     pipeline_guard |-> None, entered |-> FALSE, exited |-> FALSE,
     result |-> "none"]

\* no gesture under observation; holding tells, whatever the phase, whether a
\* hold-down-start has been emitted that no hold-down-stop has followed yet
ScnNone ==
    [phase |-> "none", key |-> None, t |-> 0, rec |-> FALSE, again |-> FALSE,
     rets |-> << >>, sig |-> << >>, holding |-> FALSE]

\* the statics as initialised in mod.rs; no thread has been spawned
Init ==
    /\ ACTIVE_MODE = "DoubleTap"
    /\ DOUBLE_TAP_DETECTOR = None
    /\ HOLD_DOWN_DETECTOR = None
    /\ HOLD_PRESS_COUNTER = 0
    /\ HOLD_PROMOTED = FALSE
    /\ IS_PROCESSING = FALSE
    /\ LISTENER_ACTIVE = FALSE
    /\ LISTENER_THREAD_SPAWNED = FALSE
    /\ cb = CbFrame("none")
    /\ errT = "none"
    /\ timers = {}
    /\ ctl = CtlIdle
    /\ emit = None
    /\ app = AppIdle
    /\ ops = 0
    /\ scn = ScnNone

\* the observer switched off
ScnOff == [ScnNone EXCEPT !.phase = "off"]

\* the statics as initialised in mod.rs, the observer switched off
InitOff ==
    /\ ACTIVE_MODE = "DoubleTap"
    /\ DOUBLE_TAP_DETECTOR = None
    /\ HOLD_DOWN_DETECTOR = None
    /\ HOLD_PRESS_COUNTER = 0
    /\ HOLD_PROMOTED = FALSE
    /\ IS_PROCESSING = FALSE
    /\ LISTENER_ACTIVE = FALSE
    /\ LISTENER_THREAD_SPAWNED = FALSE
    /\ cb = CbFrame("none")
    /\ errT = "none"
    /\ timers = {}
    /\ ctl = CtlIdle
    /\ emit = None
    /\ app = AppIdle
    /\ ops = 0
    /\ scn = ScnOff

\* --------------------------------------------------------------- observer --
\* The observer follows one gesture from an idle state: a press of the bound
\* key (P1), its release within MAX_HOLD_DURATION_MS (R1) or later (RL), a
\* second press within DOUBLE_TAP_WINDOW_MS (P2) and its release within
\* MAX_HOLD_DURATION_MS (R2) or later (RH); EX is the first event that arrives
\* after the window of a single tap has expired.  t is the time since the latest event
\* of the gesture, rets the values returned by the detector for its events
\* and sig the signals emitted since it began; rec is the recording flag
\* and again tells whether the detector had fired before, both when it began.
ScnStart(e, rec, again) ==
    [phase |-> "P1", key |-> Some(e.key), t |-> 0, rec |-> rec, again |-> again,
     rets |-> << >>, sig |-> << >>, holding |-> FALSE]

ScnNext(s, e, clean, rec, again) ==
    LET on(p) == [s EXCEPT !.phase = p, !.t = 0]
        mine == s.key = Some(e.key)
    IN  IF s.phase = "off" THEN s
        ELSE IF s.phase = "P1" /\ mine /\ e.type = "KeyRelease"
        THEN IF s.t <= MAX_HOLD_DURATION_MS THEN on("R1") ELSE on("RL")
        ELSE IF s.phase = "R1" /\ s.t > DOUBLE_TAP_WINDOW_MS
        THEN on("EX")
        ELSE IF s.phase = "R1" /\ mine /\ e.type = "KeyPress"
        THEN on("P2")
        ELSE IF s.phase = "P2" /\ mine /\ e.type = "KeyRelease"
        THEN IF s.t <= MAX_HOLD_DURATION_MS THEN on("R2") ELSE on("RH")
        ELSE IF clean THEN [ScnStart(e, rec, again) EXCEPT !.holding = s.holding]
        ELSE [ScnNone EXCEPT !.holding = s.holding]

Watching(s) == s.phase \notin {"none", "off"}
ScnRet(s, r) == IF Watching(s) THEN [s EXCEPT !.rets = Append(@, r)] ELSE s
Holding(s, g) ==
    IF g = "hold-down-start" THEN TRUE
    ELSE IF g = "hold-down-stop" THEN FALSE
    ELSE s.holding
ScnSig(s, g) ==
    IF Watching(s) THEN [s EXCEPT !.sig = Append(@, g), !.holding = Holding(s, g)]
    ELSE [s EXCEPT !.holding = Holding(s, g)]
\* a control operation or a listener error ends the gesture under observation
ScnReset(s) == IF s.phase = "off" THEN s ELSE [ScnNone EXCEPT !.holding = s.holding]

\* ---------------------------------------------- the listener callback --
\* an idle state of Both mode, from which the observer follows a gesture
CleanBoth(e) ==
    /\ e.type = "KeyPress"
    /\ LISTENER_ACTIVE /\ ACTIVE_MODE = "Both" /\ ~IS_PROCESSING
    /\ ctl.pc = "idle" /\ errT = "none"
    /\ \A t \in timers : t.pc = "sleep" /\ t.slept < MAX_HOLD_DURATION_MS
    /\ DOUBLE_TAP_DETECTOR # None /\ HOLD_DOWN_DETECTOR # None
    /\ LET d == DOUBLE_TAP_DETECTOR[1]
           h == HOLD_DOWN_DETECTOR[1]
       IN  /\ d.target_key = Some(e.key) /\ h.target_key = Some(e.key)
           /\ d.state = "Idle" /\ ~DoubleTapDetector_in_cooldown(d)
           /\ h.state = "Idle" /\ ~HoldDownDetector_in_cooldown(h)

Recording == DOUBLE_TAP_DETECTOR # None /\ DOUBLE_TAP_DETECTOR[1].recording
FiredBefore == DOUBLE_TAP_DETECTOR # None /\ DOUBLE_TAP_DETECTOR[1].last_fired_at # None

\* new work is accepted while the counter and the timer threads are in bounds
InBounds == HOLD_PRESS_COUNTER < MaxCounter /\ Cardinality(timers) < MaxTimers

\* the event is handled whatever LISTENER_ACTIVE holds
CbBeginUnchecked(e) ==
    /\ cb.pc = "idle" /\ InBounds
    /\ cb' = [CbFrame("mode") EXCEPT !.event = Some(e),
                                     !.while_processing = IS_PROCESSING]
    /\ scn' = ScnNext(scn, e, CleanBoth(e), Recording, FiredBefore)
    /\ emit' = None
    /\ UNCHANGED app
    /\ UNCHANGED <<ops, ACTIVE_MODE, detectors, both_state, listener_state,
                   errT, timers, ctl>>

\* listener.rs:28-31  rdev invokes the callback; LISTENER_ACTIVE is loaded
CbBegin(e) ==
    /\ cb.pc = "idle" /\ InBounds
    /\ cb' = IF LISTENER_ACTIVE
             THEN [CbFrame("mode") EXCEPT !.event = Some(e),
                                          !.while_processing = IS_PROCESSING]
             ELSE cb
    /\ scn' = ScnNext(scn, e, CleanBoth(e), Recording, FiredBefore)
    /\ emit' = None
    /\ UNCHANGED app
    /\ UNCHANGED <<ops, ACTIVE_MODE, detectors, both_state, listener_state,
                   errT, timers, ctl>>

\* listener.rs:33-38  lock ACTIVE_MODE and dispatch on it
CbMode ==
    /\ cb.pc = "mode"
    /\ cb' = [cb EXCEPT !.pc = CASE ACTIVE_MODE = "DoubleTap" -> "double_tap"
                                 [] ACTIVE_MODE = "HoldDown"  -> "hold_down"
                                 [] ACTIVE_MODE = "Both"      -> "processing"]
    /\ emit' = None
    /\ UNCHANGED app
    /\ UNCHANGED <<ops, ACTIVE_MODE, detectors, both_state, listener_state,
                   errT, timers, ctl, scn>>

\* listener.rs:39-51  DoubleTap mode: feed the double-tap detector
CbDoubleTap ==
    /\ cb.pc = "double_tap"
    /\ LET r == IF DOUBLE_TAP_DETECTOR # None
                THEN DoubleTapDetector_handle_event(DOUBLE_TAP_DETECTOR[1],
                                                    cb.event[1])
                ELSE [det |-> DoubleTapDetector_new, fired |-> FALSE]
       IN  /\ DOUBLE_TAP_DETECTOR' = IF DOUBLE_TAP_DETECTOR # None
                                     THEN Some(r.det) ELSE None
           /\ cb' = IF r.fired
                    THEN [cb EXCEPT !.pc = "emit_double_tap", !.dtap_fired = TRUE]
                    ELSE CbFrame("idle")
    /\ emit' = None
    /\ UNCHANGED app
    /\ UNCHANGED <<ops, ACTIVE_MODE, HOLD_DOWN_DETECTOR, both_state, listener_state,
                   errT, timers, ctl, scn>>

\* listener.rs:52-66  HoldDown mode: feed the hold-down detector
CbHoldDown ==
    /\ cb.pc = "hold_down"
    /\ LET r == IF HOLD_DOWN_DETECTOR # None
                THEN HoldDownDetector_handle_event(HOLD_DOWN_DETECTOR[1],
                                                   cb.event[1])
                ELSE [det |-> HoldDownDetector_new, result |-> "None"]
       IN  /\ HOLD_DOWN_DETECTOR' = IF HOLD_DOWN_DETECTOR # None
                                    THEN Some(r.det) ELSE None
           /\ cb' = CASE r.result = "Start" ->
                           [cb EXCEPT !.pc = "emit_hold_start", !.hold_result = "Start"]
                      [] r.result = "Stop" ->
                           [cb EXCEPT !.pc = "emit_hold_stop", !.hold_result = "Stop"]
                      [] OTHER -> CbFrame("idle")
    /\ emit' = None
    /\ UNCHANGED app
    /\ UNCHANGED <<ops, ACTIVE_MODE, DOUBLE_TAP_DETECTOR, both_state, listener_state,
                   errT, timers, ctl, scn>>

\* the event is handled whatever IS_PROCESSING holds
CbProcessingUnchecked ==
    /\ cb.pc = "processing"
    /\ cb' = [cb EXCEPT !.pc = "phase"]
    /\ emit' = None
    /\ UNCHANGED app
    /\ UNCHANGED <<ops, ACTIVE_MODE, detectors, both_state, listener_state,
                   errT, timers, ctl, scn>>

\* listener.rs:67-71  Both mode: skip the event while IS_PROCESSING
CbProcessing ==
    /\ cb.pc = "processing"
    /\ cb' = IF IS_PROCESSING THEN CbFrame("idle") ELSE [cb EXCEPT !.pc = "phase"]
    /\ emit' = None
    /\ UNCHANGED app
    /\ UNCHANGED <<ops, ACTIVE_MODE, detectors, both_state, listener_state,
                   errT, timers, ctl, scn>>

\* the second phase taken as WaitingSecondDown alone
dtap_waiting_second_down(det) ==
    IF det = None THEN FALSE
    ELSE /\ det[1].state = "WaitingSecondDown"
         /\ elapsed_ms(det[1]) <= DOUBLE_TAP_WINDOW_MS

\* listener.rs:79-84  the double-tap detector is in its second phase
dtap_second_phase(det) ==
    IF det = None THEN FALSE
    ELSE /\ det[1].state \in {"WaitingSecondDown", "WaitingSecondUp"}
         /\ elapsed_ms(det[1]) <= DOUBLE_TAP_WINDOW_MS

\* listener.rs:79-96  lock the double-tap detector and read the phase; in the
\* second phase hold_result is None without touching the hold detector
CbPhase ==
    /\ cb.pc = "phase"
    /\ LET p == dtap_second_phase(DOUBLE_TAP_DETECTOR)
       IN  cb' = [cb EXCEPT !.dtap_second_phase = p,
                            !.pc = IF p THEN "feed_dtap" ELSE "feed_hold"]
    /\ emit' = None
    /\ UNCHANGED app
    /\ UNCHANGED <<ops, ACTIVE_MODE, detectors, both_state, listener_state,
                   errT, timers, ctl, scn>>

\* listener.rs:87-93  lock the hold detector and feed it
CbFeedHold ==
    /\ cb.pc = "feed_hold"
    /\ LET r == IF HOLD_DOWN_DETECTOR # None
                THEN HoldDownDetector_handle_event(HOLD_DOWN_DETECTOR[1],
                                                   cb.event[1])
                ELSE [det |-> HoldDownDetector_new, result |-> "None"]
       IN  /\ HOLD_DOWN_DETECTOR' = IF HOLD_DOWN_DETECTOR # None
                                    THEN Some(r.det) ELSE None
           /\ cb' = [cb EXCEPT !.pc = "feed_dtap", !.hold_result = r.result]
    /\ emit' = None
    /\ UNCHANGED app
    /\ UNCHANGED <<ops, ACTIVE_MODE, DOUBLE_TAP_DETECTOR, both_state, listener_state,
                   errT, timers, ctl, scn>>

\* listener.rs:98-108,147-152  lock the double-tap detector, feed it, and
\* branch on hold_result
CbFeedDtap ==
    /\ cb.pc = "feed_dtap"
    /\ LET r == IF DOUBLE_TAP_DETECTOR # None
                THEN DoubleTapDetector_handle_event(DOUBLE_TAP_DETECTOR[1],
                                                    cb.event[1])
                ELSE [det |-> DoubleTapDetector_new, fired |-> FALSE]
       IN  /\ DOUBLE_TAP_DETECTOR' = IF DOUBLE_TAP_DETECTOR # None
                                     THEN Some(r.det) ELSE None
           /\ cb' = CASE cb.hold_result = "Start" ->
                           [cb EXCEPT !.pc = "start_store", !.dtap_fired = r.fired]
                      [] cb.hold_result = "Stop" ->
                           [cb EXCEPT !.pc = "stop_load", !.dtap_fired = r.fired]
                      [] OTHER ->
                           IF r.fired
                           THEN [cb EXCEPT !.pc = "emit_double_tap",
                                           !.dtap_fired = TRUE]
                           ELSE CbFrame("idle")
    /\ emit' = None
    /\ UNCHANGED app
    /\ UNCHANGED <<ops, ACTIVE_MODE, HOLD_DOWN_DETECTOR, both_state, listener_state,
                   errT, timers, ctl, scn>>

\* listener.rs:112  Start: HOLD_PROMOTED.store(false)
CbStartStore ==
    /\ cb.pc = "start_store"
    /\ HOLD_PROMOTED' = FALSE
    /\ cb' = [cb EXCEPT !.pc = "start_spawn"]
    /\ emit' = None
    /\ UNCHANGED app
    /\ UNCHANGED <<ops, ACTIVE_MODE, detectors, HOLD_PRESS_COUNTER, IS_PROCESSING,
                   listener_state, errT, timers, ctl, scn>>

\* a promotion timer thread that has just been spawned
NewTimer(press_id) ==
    [press_id |-> press_id, slept |-> 0, pc |-> "sleep", dead |-> {}]

\* listener.rs:113  the id of the press: what fetch_add(1) returns, plus one
next_press_id(previous) == previous + 1

\* listener.rs:113-116  Start: fetch_add and spawn the promotion timer
CbStartSpawn ==
    /\ cb.pc = "start_spawn"
    /\ HOLD_PRESS_COUNTER' = HOLD_PRESS_COUNTER + 1
    /\ timers' = timers \cup {NewTimer(next_press_id(HOLD_PRESS_COUNTER))}
    /\ cb' = CbFrame("idle")
    /\ emit' = None
    /\ UNCHANGED app
    /\ UNCHANGED <<ops, ACTIVE_MODE, detectors, HOLD_PROMOTED, IS_PROCESSING,
                   listener_state, errT, ctl, scn>>

\* listener.rs:131  Stop: HOLD_PROMOTED.load()
CbStopLoad ==
    /\ cb.pc = "stop_load"
    /\ cb' = [cb EXCEPT !.pc = "stop_store", !.promoted = HOLD_PROMOTED]
    /\ emit' = None
    /\ UNCHANGED app
    /\ UNCHANGED <<ops, ACTIVE_MODE, detectors, both_state, listener_state,
                   errT, timers, ctl, scn>>

\* listener.rs:132  Stop: HOLD_PROMOTED.store(false)
CbStopStore ==
    /\ cb.pc = "stop_store"
    /\ HOLD_PROMOTED' = FALSE
    /\ cb' = [cb EXCEPT !.pc = "stop_inc"]
    /\ emit' = None
    /\ UNCHANGED app
    /\ UNCHANGED <<ops, ACTIVE_MODE, detectors, HOLD_PRESS_COUNTER, IS_PROCESSING,
                   listener_state, errT, timers, ctl, scn>>

\* timers marked with the reason for which they must no longer promote
Mark(ts, which(_), reason) ==
    {IF which(t) THEN [t EXCEPT !.dead = @ \cup {reason}] ELSE t : t \in ts}

\* Stop: the double-tap signal is chosen before the promoted hold is looked at
CbStopIncTapFirst ==
    /\ cb.pc = "stop_inc"
    /\ HOLD_PRESS_COUNTER' = HOLD_PRESS_COUNTER + 1
    /\ timers' = timers
    /\ cb' = IF cb.dtap_fired THEN [cb EXCEPT !.pc = "emit_double_tap"]
             ELSE IF cb.promoted THEN [cb EXCEPT !.pc = "emit_hold_stop"]
             ELSE CbFrame("idle")
    /\ emit' = None
    /\ UNCHANGED app
    /\ UNCHANGED <<ops, ACTIVE_MODE, detectors, HOLD_PROMOTED, IS_PROCESSING,
                   listener_state, errT, ctl, scn>>

\* listener.rs:134-146  Stop: fetch_add, then choose the signal.  The timer of
\* the press that is stopped is the one whose press_id the counter still holds.
CbStopInc ==
    /\ cb.pc = "stop_inc"
    /\ HOLD_PRESS_COUNTER' = HOLD_PRESS_COUNTER + 1
    /\ LET mine(t) == t.press_id = HOLD_PRESS_COUNTER
       IN  timers' = Mark(timers, mine, "stop")
    /\ cb' = IF cb.promoted THEN [cb EXCEPT !.pc = "emit_hold_stop"]
             ELSE IF cb.dtap_fired THEN [cb EXCEPT !.pc = "emit_double_tap"]
             ELSE CbFrame("idle")
    /\ emit' = None
    /\ UNCHANGED app
    /\ UNCHANGED <<ops, ACTIVE_MODE, detectors, HOLD_PROMOTED, IS_PROCESSING,
                   listener_state, errT, ctl, scn>>

\* listener.rs:49,62,63,139,143,150  handle.emit(...)
CbEmit ==
    /\ cb.pc \in {"emit_double_tap", "emit_hold_start", "emit_hold_stop"}
    /\ LET g == CASE cb.pc = "emit_double_tap" -> "double-tap-toggle"
                  [] cb.pc = "emit_hold_start" -> "hold-down-start"
                  [] cb.pc = "emit_hold_stop"  -> "hold-down-stop"
       IN  /\ emit' = Some(g)
           /\ scn' = ScnSig(scn, g)
    /\ cb' = CbFrame("idle")
    /\ UNCHANGED <<ops, ACTIVE_MODE, detectors, both_state, listener_state,
                   errT, timers, ctl, app>>

\* listener.rs:158-163  listen() returns Err: the thread leaves the callback
\* and clears LISTENER_THREAD_SPAWNED, then LISTENER_ACTIVE
ListenError ==
    /\ cb.pc = "idle" /\ errT = "none"
    /\ cb' = CbFrame("none")
    /\ errT' = "spawned"
    /\ scn' = ScnReset(scn)
    /\ emit' = None
    /\ UNCHANGED app
    /\ UNCHANGED <<ops, ACTIVE_MODE, detectors, both_state, listener_state,
                   timers, ctl>>

ErrSpawned ==
    /\ errT = "spawned"
    /\ LISTENER_THREAD_SPAWNED' = FALSE
    /\ errT' = "active"
    /\ emit' = None
    /\ UNCHANGED app
    /\ UNCHANGED <<ops, ACTIVE_MODE, detectors, both_state, LISTENER_ACTIVE,
                   cb, timers, ctl, scn>>

ErrActive ==
    /\ errT = "active"
    /\ LISTENER_ACTIVE' = FALSE
    /\ errT' = "none"
    /\ emit' = None
    /\ UNCHANGED app
    /\ UNCHANGED <<ops, ACTIVE_MODE, detectors, both_state, LISTENER_THREAD_SPAWNED,
                   cb, timers, ctl, scn>>

\* ------------------------------------------------- the promotion timers --
\* listener.rs:116-117  the sleep has ended: compare the counter
TimerCheck(t) ==
    /\ t.pc = "sleep" /\ t.slept >= MAX_HOLD_DURATION_MS
    /\ timers' = IF HOLD_PRESS_COUNTER = t.press_id
                 THEN (timers \ {t}) \cup {[t EXCEPT !.pc = "held"]}
                 ELSE timers \ {t}
    /\ emit' = None
    /\ UNCHANGED app
    /\ UNCHANGED <<ops, ACTIVE_MODE, detectors, both_state, listener_state,
                   cb, errT, ctl, scn>>

\* listener.rs:118-122  lock the hold detector and read still_held
TimerHeld(t) ==
    /\ t.pc = "held"
    /\ LET still_held == IF HOLD_DOWN_DETECTOR = None THEN FALSE
                         ELSE HOLD_DOWN_DETECTOR[1].state = "Held"
       IN  timers' = IF still_held
                     THEN (timers \ {t}) \cup {[t EXCEPT !.pc = "store"]}
                     ELSE timers \ {t}
    /\ emit' = None
    /\ UNCHANGED app
    /\ UNCHANGED <<ops, ACTIVE_MODE, detectors, both_state, listener_state,
                   cb, errT, ctl, scn>>

\* listener.rs:123  HOLD_PROMOTED.store(true)
TimerStore(t) ==
    /\ t.pc = "store"
    /\ HOLD_PROMOTED' = TRUE
    /\ timers' = (timers \ {t}) \cup {[t EXCEPT !.pc = "emit"]}
    /\ emit' = None
    /\ UNCHANGED app
    /\ UNCHANGED <<ops, ACTIVE_MODE, detectors, HOLD_PRESS_COUNTER, IS_PROCESSING,
                   listener_state, cb, errT, ctl, scn>>

\* listener.rs:125  emit hold-down-start; the thread ends
TimerEmit(t) ==
    /\ t.pc = "emit"
    /\ timers' = timers \ {t}
    /\ emit' = Some("hold-down-start")
    /\ UNCHANGED app
    /\ scn' = ScnSig(scn, "hold-down-start")
    /\ UNCHANGED <<ops, ACTIVE_MODE, detectors, both_state, listener_state,
                   cb, errT, ctl>>

\* ------------------------------------------------- control operations --
Hotkeys == {"shift_l", "alt_l"}
ModeNames == {"double_tap", "hold_down", "both"}

\* mod.rs:132-136
detector_mode(mode) ==
    CASE mode = "hold_down" -> "HoldDown"
      [] mode = "both"      -> "Both"
      [] OTHER              -> "DoubleTap"

\* mod.rs:129-142  start_listener: lock ACTIVE_MODE and set it
StartListener(hotkey, mode) ==
    /\ ctl.pc = "idle" /\ ops < MaxOps /\ ops' = ops + 1
    /\ LET m == detector_mode(mode)
       IN  /\ ACTIVE_MODE' = m
           /\ ctl' = [CtlIdle EXCEPT
                        !.pc = IF m = "DoubleTap" THEN "sl_dtap" ELSE "sl_hold",
                        !.target = hotkey_to_rdev_key(hotkey),
                        !.mode = m,
                        !.from_both = (ACTIVE_MODE = "Both" /\ m # "Both"),
                        !.switched = (ACTIVE_MODE # m /\ LISTENER_ACTIVE),
                        !.counter = HOLD_PRESS_COUNTER]
    /\ scn' = ScnReset(scn)
    /\ emit' = None
    /\ UNCHANGED app
    /\ UNCHANGED <<detectors, both_state, listener_state, cb, errT, timers>>

\* mod.rs:157-172,176-186  lock the hold detector; set_target or create it
SlHold ==
    /\ ctl.pc = "sl_hold"
    /\ LET d == IF HOLD_DOWN_DETECTOR # None THEN HOLD_DOWN_DETECTOR[1]
                ELSE HoldDownDetector_new
       IN  HOLD_DOWN_DETECTOR' = Some(HoldDownDetector_set_target(d, ctl.target).det)
    /\ ctl' = [ctl EXCEPT !.pc = IF ctl.mode = "Both" THEN "sl_dtap" ELSE "sl_active"]
    /\ emit' = None
    /\ UNCHANGED app
    /\ UNCHANGED <<ops, ACTIVE_MODE, DOUBLE_TAP_DETECTOR, both_state, listener_state,
                   cb, errT, timers, scn>>

\* mod.rs:146-156,187-197  lock the double-tap detector; set_target or create it
SlDtap ==
    /\ ctl.pc = "sl_dtap"
    /\ LET d == IF DOUBLE_TAP_DETECTOR # None THEN DOUBLE_TAP_DETECTOR[1]
                ELSE DoubleTapDetector_new
       IN  DOUBLE_TAP_DETECTOR' = Some(DoubleTapDetector_set_target(d, ctl.target))
    /\ ctl' = [ctl EXCEPT !.pc = "sl_active"]
    /\ emit' = None
    /\ UNCHANGED app
    /\ UNCHANGED <<ops, ACTIVE_MODE, HOLD_DOWN_DETECTOR, both_state, listener_state,
                   cb, errT, timers, scn>>

\* mod.rs:201  LISTENER_ACTIVE.store(true)
SlActive ==
    /\ ctl.pc = "sl_active"
    /\ LISTENER_ACTIVE' = TRUE
    /\ ctl' = [ctl EXCEPT !.pc = "sl_spawn"]
    /\ emit' = None
    /\ UNCHANGED app
    /\ UNCHANGED <<ops, ACTIVE_MODE, detectors, both_state, LISTENER_THREAD_SPAWNED,
                   cb, errT, timers, scn>>

\* mod.rs:204-210  compare_exchange(false, true); the winner spawns the thread.
\* start_listener returns: timers alive at a switch away from Both are marked.
SlSpawn ==
    /\ ctl.pc = "sl_spawn"
    /\ LISTENER_THREAD_SPAWNED' = TRUE
    /\ cb' = IF LISTENER_THREAD_SPAWNED THEN cb ELSE CbFrame("idle")
    /\ LET all(t) == ctl.from_both
       IN  timers' = Mark(timers, all, "mode_switch")
    /\ ctl' = CtlIdle
    /\ emit' = None
    /\ UNCHANGED app
    /\ UNCHANGED <<ops, ACTIVE_MODE, detectors, both_state, LISTENER_ACTIVE, errT, scn>>

\* mod.rs:213-214  stop_listener: LISTENER_ACTIVE.store(false)
StopListener ==
    /\ ctl.pc = "idle" /\ ops < MaxOps /\ ops' = ops + 1 /\ HOLD_PRESS_COUNTER < MaxCounter
    /\ LISTENER_ACTIVE' = FALSE
    /\ ctl' = [CtlIdle EXCEPT !.pc = "st_dtap"]
    /\ scn' = ScnReset(scn)
    /\ emit' = None
    /\ UNCHANGED app
    /\ UNCHANGED <<ACTIVE_MODE, detectors, both_state, LISTENER_THREAD_SPAWNED,
                   cb, errT, timers>>

\* mod.rs:217-222
StDtap ==
    /\ ctl.pc = "st_dtap"
    /\ DOUBLE_TAP_DETECTOR' =
         IF DOUBLE_TAP_DETECTOR = None THEN None
         ELSE Some(DoubleTapDetector_reset(DOUBLE_TAP_DETECTOR[1]))
    /\ ctl' = [ctl EXCEPT !.pc = "st_hold"]
    /\ emit' = None
    /\ UNCHANGED app
    /\ UNCHANGED <<ops, ACTIVE_MODE, HOLD_DOWN_DETECTOR, both_state, listener_state,
                   cb, errT, timers, scn>>

\* mod.rs:223-228
StHold ==
    /\ ctl.pc = "st_hold"
    /\ HOLD_DOWN_DETECTOR' =
         IF HOLD_DOWN_DETECTOR = None THEN None
         ELSE Some(HoldDownDetector_reset(HOLD_DOWN_DETECTOR[1]))
    /\ ctl' = [ctl EXCEPT !.pc = "st_promoted"]
    /\ emit' = None
    /\ UNCHANGED app
    /\ UNCHANGED <<ops, ACTIVE_MODE, DOUBLE_TAP_DETECTOR, both_state, listener_state,
                   cb, errT, timers, scn>>

\* mod.rs:229
StPromoted ==
    /\ ctl.pc = "st_promoted"
    /\ HOLD_PROMOTED' = FALSE
    /\ ctl' = [ctl EXCEPT !.pc = "st_counter"]
    /\ emit' = None
    /\ UNCHANGED app
    /\ UNCHANGED <<ops, ACTIVE_MODE, detectors, HOLD_PRESS_COUNTER, IS_PROCESSING,
                   listener_state, cb, errT, timers, scn>>

\* mod.rs:230-231  fetch_add; stop_listener returns: the timers alive are marked
StCounter ==
    /\ ctl.pc = "st_counter"
    /\ HOLD_PRESS_COUNTER' = HOLD_PRESS_COUNTER + 1
    /\ LET all(t) == TRUE
       IN  timers' = Mark(timers, all, "stop_listener")
    /\ ctl' = CtlIdle
    /\ emit' = None
    /\ UNCHANGED app
    /\ UNCHANGED <<ops, ACTIVE_MODE, detectors, HOLD_PROMOTED, IS_PROCESSING,
                   listener_state, cb, errT, scn>>

\* mod.rs:235-241  set_target_key: lock ACTIVE_MODE and read it
SetTargetKey(hotkey) ==
    /\ ctl.pc = "idle" /\ ops < MaxOps /\ ops' = ops + 1
    /\ ctl' = [CtlIdle EXCEPT
                 !.pc = IF ACTIVE_MODE = "DoubleTap" THEN "tk_dtap" ELSE "tk_hold",
                 !.target = hotkey_to_rdev_key(hotkey),
                 !.mode = ACTIVE_MODE]
    /\ scn' = ScnReset(scn)
    /\ emit' = None
    /\ UNCHANGED app
    /\ UNCHANGED <<ACTIVE_MODE, detectors, both_state, listener_state,
                   cb, errT, timers>>

\* mod.rs:249-265  lock the hold detector; set_target returns was_held
TkHold ==
    /\ ctl.pc = "tk_hold"
    /\ LET r == IF HOLD_DOWN_DETECTOR # None
                THEN HoldDownDetector_set_target(HOLD_DOWN_DETECTOR[1], ctl.target)
                ELSE [det |-> HoldDownDetector_new, was_held |-> FALSE]
       IN  /\ HOLD_DOWN_DETECTOR' = IF HOLD_DOWN_DETECTOR # None
                                    THEN Some(r.det) ELSE None
           /\ ctl' = IF ctl.mode = "Both"
                     THEN [ctl EXCEPT !.pc = "tk_dtap", !.was_held = r.was_held]
                     ELSE IF r.was_held
                     THEN [ctl EXCEPT !.pc = "tk_emit", !.was_held = TRUE]
                     ELSE CtlIdle
    /\ emit' = None
    /\ UNCHANGED app
    /\ UNCHANGED <<ops, ACTIVE_MODE, DOUBLE_TAP_DETECTOR, both_state, listener_state,
                   cb, errT, timers, scn>>

\* mod.rs:242-248,266-272  lock the double-tap detector; set_target
TkDtap ==
    /\ ctl.pc = "tk_dtap"
    /\ DOUBLE_TAP_DETECTOR' =
         IF DOUBLE_TAP_DETECTOR = None THEN None
         ELSE Some(DoubleTapDetector_set_target(DOUBLE_TAP_DETECTOR[1], ctl.target))
    /\ ctl' = IF ctl.was_held THEN [ctl EXCEPT !.pc = "tk_emit"] ELSE CtlIdle
    /\ emit' = None
    /\ UNCHANGED app
    /\ UNCHANGED <<ops, ACTIVE_MODE, HOLD_DOWN_DETECTOR, both_state, listener_state,
                   cb, errT, timers, scn>>

\* lib.rs:404-407, commands/keyboard.rs:28-31  update_keyboard_key emits
\* hold-down-stop when set_target_key returned true
TkEmit ==
    /\ ctl.pc = "tk_emit"
    /\ emit' = Some("hold-down-stop")
    /\ UNCHANGED app
    /\ scn' = ScnSig(scn, "hold-down-stop")
    /\ ctl' = CtlIdle
    /\ UNCHANGED <<ops, ACTIVE_MODE, detectors, both_state, listener_state,
                   cb, errT, timers>>

SetProcessingAlways(processing) ==
    /\ ctl.pc = "idle" /\ ops < MaxOps /\ ops' = ops + 1 /\ HOLD_PRESS_COUNTER < MaxCounter
    /\ IS_PROCESSING' = processing
    /\ ctl' = IF processing THEN [CtlIdle EXCEPT !.pc = "pe_promoted"]
              ELSE [CtlIdle EXCEPT !.pc = "px_hold"]
    /\ scn' = ScnReset(scn)
    /\ emit' = None
    /\ UNCHANGED app
    /\ UNCHANGED <<ACTIVE_MODE, detectors, HOLD_PRESS_COUNTER, HOLD_PROMOTED,
                   listener_state, cb, errT, timers>>

\* mod.rs:92-93,105  set_processing: IS_PROCESSING.swap(processing)
SetProcessing(processing) ==
    /\ ctl.pc = "idle" /\ ops < MaxOps /\ ops' = ops + 1 /\ HOLD_PRESS_COUNTER < MaxCounter
    /\ IS_PROCESSING' = processing
    /\ ctl' = IF ~IS_PROCESSING /\ processing THEN [CtlIdle EXCEPT !.pc = "pe_promoted"]
              ELSE IF IS_PROCESSING /\ ~processing THEN [CtlIdle EXCEPT !.pc = "px_hold"]
              ELSE CtlIdle
    /\ scn' = ScnReset(scn)
    /\ emit' = None
    /\ UNCHANGED app
    /\ UNCHANGED <<ACTIVE_MODE, detectors, HOLD_PRESS_COUNTER, HOLD_PROMOTED,
                   listener_state, cb, errT, timers>>

\* mod.rs:97  entering: HOLD_PROMOTED.store(false)
PePromoted ==
    /\ ctl.pc = "pe_promoted"
    /\ HOLD_PROMOTED' = FALSE
    /\ ctl' = [ctl EXCEPT !.pc = "pe_counter"]
    /\ emit' = None
    /\ UNCHANGED app
    /\ UNCHANGED <<ops, ACTIVE_MODE, detectors, HOLD_PRESS_COUNTER, IS_PROCESSING,
                   listener_state, cb, errT, timers, scn>>

\* mod.rs:98  entering: HOLD_PRESS_COUNTER.fetch_add(1)
PeCounter ==
    /\ ctl.pc = "pe_counter"
    /\ HOLD_PRESS_COUNTER' = HOLD_PRESS_COUNTER + 1
    /\ ctl' = [ctl EXCEPT !.pc = "pe_hold"]
    /\ emit' = None
    /\ UNCHANGED app
    /\ UNCHANGED <<ops, ACTIVE_MODE, detectors, HOLD_PROMOTED, IS_PROCESSING,
                   listener_state, cb, errT, timers, scn>>

\* mod.rs:99-101  entering: reset the hold detector
PeHold ==
    /\ ctl.pc = "pe_hold"
    /\ HOLD_DOWN_DETECTOR' =
         IF HOLD_DOWN_DETECTOR = None THEN None
         ELSE Some(HoldDownDetector_reset(HOLD_DOWN_DETECTOR[1]))
    /\ ctl' = [ctl EXCEPT !.pc = "pe_dtap"]
    /\ emit' = None
    /\ UNCHANGED app
    /\ UNCHANGED <<ops, ACTIVE_MODE, DOUBLE_TAP_DETECTOR, both_state, listener_state,
                   cb, errT, timers, scn>>

\* mod.rs:102-104  entering: reset the double-tap detector
PeDtap ==
    /\ ctl.pc = "pe_dtap"
    /\ DOUBLE_TAP_DETECTOR' =
         IF DOUBLE_TAP_DETECTOR = None THEN None
         ELSE Some(DoubleTapDetector_reset(DOUBLE_TAP_DETECTOR[1]))
    /\ ctl' = CtlIdle
    /\ emit' = None
    /\ UNCHANGED app
    /\ UNCHANGED <<ops, ACTIVE_MODE, HOLD_DOWN_DETECTOR, both_state, listener_state,
                   cb, errT, timers, scn>>

PxHoldNested ==
    /\ ctl.pc = "px_hold"
    /\ HOLD_DOWN_DETECTOR' =
         IF HOLD_DOWN_DETECTOR = None THEN None
         ELSE Some([HoldDownDetector_reset(HOLD_DOWN_DETECTOR[1])
                      EXCEPT !.last_stopped_at = Some(0)])
    /\ DOUBLE_TAP_DETECTOR' =
         IF DOUBLE_TAP_DETECTOR = None THEN None
         ELSE Some([DoubleTapDetector_reset(DOUBLE_TAP_DETECTOR[1])
                      EXCEPT !.last_fired_at = Some(0)])
    /\ ctl' = [ctl EXCEPT !.pc = "px_promoted"]
    /\ emit' = None
    /\ UNCHANGED app
    /\ UNCHANGED <<ops, ACTIVE_MODE, both_state, listener_state,
                   cb, errT, timers, scn>>

\* mod.rs:108-113  exiting: reset the hold detector, last_stopped_at = now
PxHold ==
    /\ ctl.pc = "px_hold"
    /\ HOLD_DOWN_DETECTOR' =
         IF HOLD_DOWN_DETECTOR = None THEN None
         ELSE Some([HoldDownDetector_reset(HOLD_DOWN_DETECTOR[1])
                      EXCEPT !.last_stopped_at = Some(0)])
    /\ ctl' = [ctl EXCEPT !.pc = "px_dtap"]
    /\ emit' = None
    /\ UNCHANGED app
    /\ UNCHANGED <<ops, ACTIVE_MODE, DOUBLE_TAP_DETECTOR, both_state, listener_state,
                   cb, errT, timers, scn>>

\* mod.rs:114-119  exiting: reset the double-tap detector, last_fired_at = now
PxDtap ==
    /\ ctl.pc = "px_dtap"
    /\ DOUBLE_TAP_DETECTOR' =
         IF DOUBLE_TAP_DETECTOR = None THEN None
         ELSE Some([DoubleTapDetector_reset(DOUBLE_TAP_DETECTOR[1])
                      EXCEPT !.last_fired_at = Some(0)])
    /\ ctl' = [ctl EXCEPT !.pc = "px_promoted"]
    /\ emit' = None
    /\ UNCHANGED app
    /\ UNCHANGED <<ops, ACTIVE_MODE, HOLD_DOWN_DETECTOR, both_state, listener_state,
                   cb, errT, timers, scn>>

\* mod.rs:120  exiting: HOLD_PROMOTED.store(false)
PxPromoted ==
    /\ ctl.pc = "px_promoted"
    /\ HOLD_PROMOTED' = FALSE
    /\ ctl' = [ctl EXCEPT !.pc = "px_counter"]
    /\ emit' = None
    /\ UNCHANGED app
    /\ UNCHANGED <<ops, ACTIVE_MODE, detectors, HOLD_PRESS_COUNTER, IS_PROCESSING,
                   listener_state, cb, errT, timers, scn>>

\* mod.rs:121  exiting: HOLD_PRESS_COUNTER.fetch_add(1)
PxCounter ==
    /\ ctl.pc = "px_counter"
    /\ HOLD_PRESS_COUNTER' = HOLD_PRESS_COUNTER + 1
    /\ ctl' = CtlIdle
    /\ emit' = None
    /\ UNCHANGED app
    /\ UNCHANGED <<ops, ACTIVE_MODE, detectors, HOLD_PROMOTED, IS_PROCESSING,
                   listener_state, cb, errT, timers, scn>>

\* mod.rs:280-285  set_recording_state
SetRecordingState(recording) ==
    /\ ctl.pc = "idle" /\ ops < MaxOps /\ ops' = ops + 1
    /\ DOUBLE_TAP_DETECTOR' =
         IF DOUBLE_TAP_DETECTOR = None THEN None
         ELSE Some([DOUBLE_TAP_DETECTOR[1] EXCEPT !.recording = recording])
    /\ scn' = ScnReset(scn)
    /\ emit' = None
    /\ UNCHANGED app
    /\ UNCHANGED <<ACTIVE_MODE, HOLD_DOWN_DETECTOR, both_state, listener_state,
                   cb, errT, timers, ctl>>

\* ------------------------------------------------------------------- time --
\* every thread is between operations or asleep
Quiescent ==
    /\ cb.pc \in {"none", "idle"} /\ ctl.pc = "idle" /\ errT = "none"
    /\ \A t \in timers : t.pc = "sleep" /\ t.slept < MAX_HOLD_DURATION_MS + TickMs

\* TickMs milliseconds pass
Tick ==
    /\ Quiescent
    /\ DOUBLE_TAP_DETECTOR' =
         IF DOUBLE_TAP_DETECTOR = None THEN None
         ELSE Some([DOUBLE_TAP_DETECTOR[1] EXCEPT
                      !.state_entered_at = Later(@, DOUBLE_TAP_WINDOW_MS + 1),
                      !.last_fired_at = LaterOpt(@, COOLDOWN_MS)])
    /\ HOLD_DOWN_DETECTOR' =
         IF HOLD_DOWN_DETECTOR = None THEN None
         ELSE Some([HOLD_DOWN_DETECTOR[1] EXCEPT
                      !.last_stopped_at = LaterOpt(@, HOLD_DOWN_COOLDOWN_MS)])
    /\ timers' = {[t EXCEPT !.slept = Later(@, MAX_HOLD_DURATION_MS + TickMs)] :
                     t \in timers}
    /\ scn' = [scn EXCEPT !.t = IF Watching(scn)
                                THEN Later(@, DOUBLE_TAP_WINDOW_MS + 1) ELSE 0]
    /\ emit' = None
    /\ UNCHANGED app
    /\ UNCHANGED <<ops, ACTIVE_MODE, both_state, listener_state, cb, errT, ctl>>

\* ------------------------------------------------- a detector on its own --
\* an idle double-tap detector, from which the observer follows a gesture
CleanDT(e) ==
    /\ e.type = "KeyPress"
    /\ DOUBLE_TAP_DETECTOR # None
    /\ LET d == DOUBLE_TAP_DETECTOR[1]
       IN  /\ d.target_key = Some(e.key)
           /\ d.state = "Idle" /\ ~DoubleTapDetector_in_cooldown(d)

\* double_tap.rs:61-168  handle_event called on a detector directly, as the
\* unit tests do; the caller keeps the value returned
UnitDtap(e) ==
    /\ cb.pc = "none" /\ DOUBLE_TAP_DETECTOR # None
    /\ LET r == DoubleTapDetector_handle_event(DOUBLE_TAP_DETECTOR[1], e)
       IN  /\ DOUBLE_TAP_DETECTOR' = Some(r.det)
           /\ cb' = [CbFrame("none") EXCEPT !.event = Some(e),
                                            !.dtap_fired = r.fired]
           /\ scn' = ScnRet(ScnNext(scn, e, CleanDT(e), Recording, FiredBefore),
                            r.fired)
    /\ emit' = None
    /\ UNCHANGED app
    /\ UNCHANGED <<ops, ACTIVE_MODE, HOLD_DOWN_DETECTOR, both_state,
                   listener_state, errT, timers, ctl>>

\* double_tap.rs:36-39  set_target called on a detector directly
UnitDtapSetTarget(key) ==
    /\ cb.pc = "none" /\ DOUBLE_TAP_DETECTOR # None
    /\ DOUBLE_TAP_DETECTOR' =
         Some(DoubleTapDetector_set_target(DOUBLE_TAP_DETECTOR[1], key))
    /\ cb' = CbFrame("none")
    /\ scn' = ScnReset(scn)
    /\ emit' = None
    /\ UNCHANGED app
    /\ UNCHANGED <<ops, ACTIVE_MODE, HOLD_DOWN_DETECTOR, both_state,
                   listener_state, errT, timers, ctl>>

\* double_tap.rs:174-178  make_detector: a new detector bound to a key
InitUnit ==
    /\ ACTIVE_MODE = "DoubleTap"
    /\ DOUBLE_TAP_DETECTOR =
         Some(DoubleTapDetector_set_target(DoubleTapDetector_new, Some("ShiftLeft")))
    /\ HOLD_DOWN_DETECTOR = None
    /\ HOLD_PRESS_COUNTER = 0
    /\ HOLD_PROMOTED = FALSE
    /\ IS_PROCESSING = FALSE
    /\ LISTENER_ACTIVE = FALSE
    /\ LISTENER_THREAD_SPAWNED = FALSE
    /\ cb = CbFrame("none")
    /\ errT = "none"
    /\ timers = {}
    /\ ctl = CtlIdle
    /\ emit = None
    /\ app = AppIdle
    /\ ops = 0
    /\ scn = ScnNone

\* hold_down.rs:60-98  handle_event called on a hold detector directly, as the
\* unit tests do; the caller keeps the value returned
UnitHold(e) ==
    /\ cb.pc = "none" /\ HOLD_DOWN_DETECTOR # None
    /\ LET r == HoldDownDetector_handle_event(HOLD_DOWN_DETECTOR[1], e)
       IN  /\ HOLD_DOWN_DETECTOR' = Some(r.det)
           /\ cb' = [CbFrame("none") EXCEPT !.event = Some(e),
                                            !.hold_result = r.result]
    /\ ctl' = CtlIdle
    /\ emit' = None
    /\ UNCHANGED app
    /\ UNCHANGED <<ops, ACTIVE_MODE, DOUBLE_TAP_DETECTOR, both_state,
                   listener_state, errT, timers, scn>>

\* hold_down.rs:39-47  set_target called on a hold detector directly; the
\* caller keeps the key passed and the value returned
UnitHoldSetTarget(key) ==
    /\ cb.pc = "none" /\ HOLD_DOWN_DETECTOR # None
    /\ LET r == HoldDownDetector_set_target(HOLD_DOWN_DETECTOR[1], key)
       IN  /\ HOLD_DOWN_DETECTOR' = Some(r.det)
           /\ ctl' = [CtlIdle EXCEPT !.target = key, !.was_held = r.was_held]
    /\ cb' = CbFrame("none")
    /\ emit' = None
    /\ UNCHANGED app
    /\ UNCHANGED <<ops, ACTIVE_MODE, DOUBLE_TAP_DETECTOR, both_state,
                   listener_state, errT, timers, scn>>

\* hold_down.rs:107-111  make_hold_detector: a new hold detector bound to a key
InitUnitHold ==
    /\ ACTIVE_MODE = "HoldDown"
    /\ DOUBLE_TAP_DETECTOR = None
    /\ HOLD_DOWN_DETECTOR =
         Some(HoldDownDetector_set_target(HoldDownDetector_new,
                                          Some("ShiftLeft")).det)
    /\ HOLD_PRESS_COUNTER = 0
    /\ HOLD_PROMOTED = FALSE
    /\ IS_PROCESSING = FALSE
    /\ LISTENER_ACTIVE = FALSE
    /\ LISTENER_THREAD_SPAWNED = FALSE
    /\ cb = CbFrame("none")
    /\ errT = "none"
    /\ timers = {}
    /\ ctl = CtlIdle
    /\ emit = None
    /\ app = AppIdle
    /\ ops = 0
    /\ scn = ScnOff

\* double_tap.rs:177-181, hold_down.rs:107-111  one detector of each kind,
\* both bound to the same key
InitUnits ==
    /\ ACTIVE_MODE = "Both"
    /\ DOUBLE_TAP_DETECTOR =
         Some(DoubleTapDetector_set_target(DoubleTapDetector_new, Some("ShiftLeft")))
    /\ HOLD_DOWN_DETECTOR =
         Some(HoldDownDetector_set_target(HoldDownDetector_new,
                                          Some("ShiftLeft")).det)
    /\ HOLD_PRESS_COUNTER = 0
    /\ HOLD_PROMOTED = FALSE
    /\ IS_PROCESSING = FALSE
    /\ LISTENER_ACTIVE = FALSE
    /\ LISTENER_THREAD_SPAWNED = FALSE
    /\ cb = CbFrame("none")
    /\ errT = "none"
    /\ timers = {}
    /\ ctl = CtlIdle
    /\ emit = None
    /\ app = AppIdle
    /\ ops = 0
    /\ scn = ScnOff

\* mod.rs:129-210  the state start_listener(hotkey, mode) leaves behind when
\* it is the first operation issued; the observer starts as s
Started(hotkey, mode, s) ==
    /\ ACTIVE_MODE = mode
    /\ DOUBLE_TAP_DETECTOR =
         Some(DoubleTapDetector_set_target(DoubleTapDetector_new,
                                           hotkey_to_rdev_key(hotkey)))
    /\ HOLD_DOWN_DETECTOR =
         Some(HoldDownDetector_set_target(HoldDownDetector_new,
                                          hotkey_to_rdev_key(hotkey)).det)
    /\ HOLD_PRESS_COUNTER = 0
    /\ HOLD_PROMOTED = FALSE
    /\ IS_PROCESSING = FALSE
    /\ LISTENER_ACTIVE = TRUE
    /\ LISTENER_THREAD_SPAWNED = TRUE
    /\ cb = CbFrame("idle")
    /\ errT = "none"
    /\ timers = {}
    /\ ctl = CtlIdle
    /\ emit = None
    /\ app = AppIdle
    /\ ops = 0
    /\ scn = s

\* ---------------------------------------------------------- specification --
\* the events of the bound key and of one non-modifier key
BoundEvents ==
    {KeyPress("ShiftLeft"), KeyRelease("ShiftLeft"),
     KeyPress("KeyA"), KeyRelease("KeyA")}

\* the events of the bound key
TargetEvents == {KeyPress("ShiftLeft"), KeyRelease("ShiftLeft")}

\* the callback in Both mode
CallbackBoth(events) ==
    \/ \E e \in events : CbBegin(e)
    \/ CbMode \/ CbProcessing \/ CbPhase
    \/ CbFeedHold \/ CbFeedDtap \/ CbStartStore \/ CbStartSpawn
    \/ CbStopLoad \/ CbStopStore \/ CbStopInc \/ CbEmit

\* the callback in any mode
CallbackAny(events) ==
    CallbackBoth(events) \/ CbDoubleTap \/ CbHoldDown

Callback ==
    \/ CallbackAny(EventTypes)
    \/ ListenError \/ ErrSpawned \/ ErrActive

Timer ==
    \E t \in timers : TimerCheck(t) \/ TimerHeld(t) \/ TimerStore(t) \/ TimerEmit(t)

\* set_processing, step by step
Processing ==
    \/ \E p \in BOOLEAN : SetProcessing(p)
    \/ PePromoted \/ PeCounter \/ PeHold \/ PeDtap
    \/ PxHold \/ PxDtap \/ PxPromoted \/ PxCounter

\* start_listener and stop_listener, step by step
Listener(hotkeys) ==
    \/ \E h \in hotkeys, m \in ModeNames : StartListener(h, m)
    \/ SlHold \/ SlDtap \/ SlActive \/ SlSpawn
    \/ StopListener \/ StDtap \/ StHold \/ StPromoted \/ StCounter

\* set_target_key, step by step
TargetKey(hotkeys) ==
    \/ \E h \in hotkeys : SetTargetKey(h)
    \/ TkHold \/ TkDtap \/ TkEmit

RecordingState == \E r \in BOOLEAN : SetRecordingState(r)

Control ==
    \/ Listener(Hotkeys) \/ TargetKey(Hotkeys) \/ Processing \/ RecordingState

\* the whole module, from the statics as initialised
Next == Callback \/ Timer \/ Control \/ Tick

Spec == Init /\ [][Next]_vars

\* a detector on its own, driven as the unit tests drive it
NextUnit ==
    \/ \E e \in EventTypes : UnitDtap(e)
    \/ \E k \in {None} \cup {Some(k) : k \in Keys} : UnitDtapSetTarget(k)
    \/ RecordingState
    \/ Tick

SpecUnit == InitUnit /\ [][NextUnit]_vars

\* the keys a detector can be bound to
OptKeys == {None} \cup {Some(k) : k \in Keys}

\* a hold detector on its own, driven as the unit tests drive it
NextUnitHold ==
    \/ \E e \in EventTypes : UnitHold(e)
    \/ \E k \in OptKeys : UnitHoldSetTarget(k)
    \/ Tick

SpecUnitHold == InitUnitHold /\ [][NextUnitHold]_vars

\* a detector of each kind, each driven on its own
NextUnits ==
    \/ \E e \in EventTypes : UnitDtap(e) \/ UnitHold(e)
    \/ \E k \in OptKeys : UnitDtapSetTarget(k) \/ UnitHoldSetTarget(k)
    \/ Tick

SpecUnits == InitUnits /\ [][NextUnits]_vars

\* the callback in HoldDown mode
CallbackHold(events) ==
    \/ \E e \in events : CbBegin(e)
    \/ CbMode \/ CbHoldDown \/ CbEmit

\* the operations that bind the hold detector to a key in HoldDown mode:
\* start_listener called again and set_target_key, step by step
HoldRebind(hotkeys) ==
    \/ \E h \in hotkeys : StartListener(h, "hold_down")
    \/ SlHold \/ SlActive \/ SlSpawn
    \/ \E h \in hotkeys : SetTargetKey(h)
    \/ TkHold \/ TkEmit

\* HoldDown mode with the listener running, and the rebinding operations
NextHoldMode == CallbackHold(BoundEvents) \/ Tick \/ HoldRebind(Hotkeys)

SpecHoldMode == Started("shift_l", "HoldDown", ScnOff) /\ [][NextHoldMode]_vars

\* hotkey strings that name no key
UnknownHotkeys == {"caps_lock"}

\* the callback as far as it gets while no detector is bound to a key
CallbackUnbound(events) ==
    \/ \E e \in events : CbBegin(e)
    \/ CbMode \/ CbDoubleTap \/ CbHoldDown
    \/ CbProcessing \/ CbPhase \/ CbFeedHold \/ CbFeedDtap

\* set_target_key as far as it gets while no hold is in progress
TargetKeyIdle(hotkeys) ==
    \/ \E h \in hotkeys : SetTargetKey(h)
    \/ TkHold \/ TkDtap

\* the listener started, stopped and rebound with hotkey strings that name
\* no key
NextUnbound ==
    \/ CallbackUnbound(EventTypes) \/ Tick
    \/ Listener(UnknownHotkeys) \/ TargetKeyIdle(UnknownHotkeys)

SpecUnbound == InitOff /\ [][NextUnbound]_vars

\* the listener from the statics as initialised: started, stopped and ended
\* by an error of listen()
NextListen ==
    \/ CallbackAny(TargetEvents) \/ Timer \/ Tick
    \/ Listener({"shift_l"})
    \/ ListenError \/ ErrSpawned \/ ErrActive

SpecListen == InitOff /\ [][NextListen]_vars

\* Both mode with the listener running: gestures, timers and the recording flag
NextBoth == CallbackBoth(EventTypes) \/ Timer \/ Tick \/ RecordingState

SpecBoth == Started("shift_l", "Both", ScnNone) /\ [][NextBoth]_vars

\* every mode with the listener running
InitCtl == \E m \in DetectorModes : Started("shift_l", m, ScnOff)

\* every mode with the listener running, and set_processing
NextModes == CallbackAny(BoundEvents) \/ Timer \/ Tick \/ Processing

SpecModes == InitCtl /\ [][NextModes]_vars

\* every mode with the listener running, and the control operations

NextCtl ==
    \/ CallbackAny(BoundEvents) \/ Timer \/ Tick
    \/ Processing \/ Listener({"shift_l"}) \/ TargetKey({"shift_l"})

SpecCtl == InitCtl /\ [][NextCtl]_vars

\* every mode with the listener running, set_processing and set_target_key:
\* the operations that seed a cooldown
NextCooldown ==
    \/ CallbackAny(TargetEvents) \/ Timer \/ Tick
    \/ Processing \/ TargetKey({"shift_l"})

SpecCooldown == InitCtl /\ [][NextCooldown]_vars

\* Both mode with the listener running, and set_target_key
NextBothKey ==
    \/ CallbackBoth(TargetEvents) \/ Timer \/ Tick
    \/ TargetKey(Hotkeys)

SpecBothKey == Started("shift_l", "Both", ScnOff) /\ [][NextBothKey]_vars

\* ------------------------------------------------------------- properties --
\* C9: a double-tap detector that is Idle, out of cooldown and not recording
\* returns false for the press, the quick release and the second press of a
\* double tap, passing through WaitingFirstUp, WaitingSecondDown and
\* WaitingSecondUp, and returns true on the final quick release, which leaves
\* it Idle; so does every later double tap begun out of cooldown.
C9_DoubleTapFires ==
    (DOUBLE_TAP_DETECTOR # None /\ Watching(scn) /\ ~scn.rec) =>
        LET d == DOUBLE_TAP_DETECTOR[1]
        IN  /\ scn.phase = "P1" =>
                 d.state = "WaitingFirstUp" /\ scn.rets = <<FALSE>>
            /\ scn.phase = "R1" =>
                 d.state = "WaitingSecondDown" /\ scn.rets = <<FALSE, FALSE>>
            /\ scn.phase = "P2" =>
                 d.state = "WaitingSecondUp" /\ scn.rets = <<FALSE, FALSE, FALSE>>
            /\ scn.phase = "R2" =>
                 d.state = "Idle" /\ scn.rets = <<FALSE, FALSE, FALSE, TRUE>>

\* a double tap has fired on a detector that had fired before
C9_FiredAgain ==
    /\ scn.phase = "R2" /\ ~scn.rec /\ scn.again
    /\ scn.rets = <<FALSE, FALSE, FALSE, TRUE>>

\* C10: after a single quick tap with recording false nothing has fired, the
\* detector is in WaitingSecondDown while DOUBLE_TAP_WINDOW_MS has not elapsed
\* since the release, and it is Idle once the window has expired.
C10_SingleTapExpires ==
    (DOUBLE_TAP_DETECTOR # None /\ scn.phase = "R1" /\ ~scn.rec) =>
        /\ scn.rets = <<FALSE, FALSE>>
        /\ DOUBLE_TAP_DETECTOR[1].state =
             IF scn.t <= DOUBLE_TAP_WINDOW_MS THEN "WaitingSecondDown" ELSE "Idle"

\* C1: in Both mode with recording false, a quick double tap begun from an
\* idle state emits no signal before its final release and exactly one
\* double-tap-toggle, and nothing else, once that release has been handled.
C1_QuickDoubleTap ==
    (Watching(scn) /\ ~scn.rec) =>
        /\ scn.phase \in {"R1", "P2"} => scn.sig = << >>
        /\ scn.phase = "R2" =>
             IF cb.pc = "idle" THEN scn.sig = <<"double-tap-toggle">>
             ELSE scn.sig = << >>

\* C2: in Both mode every press of the bound key that is held longer than
\* MAX_HOLD_DURATION_MS and then released, the first of a gesture or the one
\* that follows a quick tap, has produced exactly hold-down-start followed by
\* hold-down-stop once its release has been handled.
C2_EveryLongPress ==
    (scn.phase \in {"RL", "RH"} /\ cb.pc = "idle") =>
        scn.sig = <<"hold-down-start", "hold-down-stop">>

\* C3: a promotion timer whose press has had its Stop processed by the
\* callback, generation counter incremented, takes neither the step that
\* stores promoted = true nor the step that emits hold-down-start.
C3_StoppedTimerNoOp ==
    [][\A t \in timers :
         "stop" \in t.dead => ~(TimerStore(t) \/ TimerEmit(t))]_vars

\* C4: a promotion timer that was alive when stop_listener returned, or when
\* start_listener returned after switching the mode away from Both, does not
\* take the step that emits hold-down-start.
C4_CancelledTimerSilent ==
    [][\A t \in timers :
         t.dead \cap {"stop_listener", "mode_switch"} # {} => ~TimerEmit(t)]_vars

\* C5: in Both mode, while the processing flag is set and set_processing has
\* returned, no step emits a signal.
C5_SilentWhileProcessing ==
    (ACTIVE_MODE = "Both" /\ IS_PROCESSING /\ ctl.pc = "idle") => emit = None

\* C7: when set_processing(false) returns after a true -> false transition,
\* both detectors are Idle with last_fired_at and last_stopped_at set to now,
\* promoted is false and the counter has been incremented.
C7_ExitPostcondition ==
    [][PxCounter =>
         /\ DOUBLE_TAP_DETECTOR'[1].state = "Idle"
         /\ DOUBLE_TAP_DETECTOR'[1].last_fired_at = Some(0)
         /\ HOLD_DOWN_DETECTOR'[1].state = "Idle"
         /\ HOLD_DOWN_DETECTOR'[1].last_stopped_at = Some(0)
         /\ ~HOLD_PROMOTED'
         /\ HOLD_PRESS_COUNTER' = HOLD_PRESS_COUNTER + 1]_vars

C8_HandlingExclusive ==
    [][(cb.pc \notin {"none", "idle", "mode"} /\ cb' = cb) =>
         /\ UNCHANGED <<ACTIVE_MODE, detectors, both_state, LISTENER_ACTIVE>>
         /\ emit' = None]_vars

\* C11: a Press of the target key, a modifier, that directly follows another
\* Press of the target key, the key still being held, begins no new tap
\* sequence: it never takes the DoubleTapDetector from Idle to WaitingFirstUp.
\* The detector has not fired before, so that no cooldown plays a part.
C11_RepeatBeginsNothing ==
    [][\A k \in Keys :
         (/\ is_modifier(k)
          /\ DOUBLE_TAP_DETECTOR # None
          /\ DOUBLE_TAP_DETECTOR[1].target_key = Some(k)
          /\ DOUBLE_TAP_DETECTOR[1].last_fired_at = None
          /\ cb.event = Some(KeyPress(k))
          /\ UnitDtap(KeyPress(k)))
         => ~(/\ DOUBLE_TAP_DETECTOR[1].state = "Idle"
              /\ DOUBLE_TAP_DETECTOR'[1].state = "WaitingFirstUp")]_vars

\* C12: in WaitingFirstUp, in WaitingSecondDown within the window and in
\* WaitingSecondUp, a Press of a non-modifier key other than the target returns
\* false and moves the DoubleTapDetector to Idle, whatever the elapsed time
\* and the recording flag; from Idle a Release of the target returns false
\* and leaves the detector Idle, so the aborted sequence fires no more.
C12_LetterAborts ==
    [][\A k \in Keys :
         LET d == DOUBLE_TAP_DETECTOR[1]
             after == DOUBLE_TAP_DETECTOR'[1]
         IN  /\ (/\ DOUBLE_TAP_DETECTOR # None
                 /\ d.target_key \notin {None, Some(k)}
                 /\ ~is_modifier(k)
                 /\ \/ d.state \in {"WaitingFirstUp", "WaitingSecondUp"}
                    \/ /\ d.state = "WaitingSecondDown"
                       /\ d.state_entered_at <= DOUBLE_TAP_WINDOW_MS
                 /\ UnitDtap(KeyPress(k)))
                => (~cb'.dtap_fired /\ after.state = "Idle")
             /\ (/\ DOUBLE_TAP_DETECTOR # None
                 /\ d.target_key = Some(k)
                 /\ d.state = "Idle"
                 /\ UnitDtap(KeyRelease(k)))
                => (~cb'.dtap_fired /\ after.state = "Idle")]_vars

\* a second press held past MAX_HOLD_DURATION_MS with recording set: a
\* sequence that a Press of a letter aborts
C12_SequenceToAbort ==
    /\ DOUBLE_TAP_DETECTOR # None
    /\ DOUBLE_TAP_DETECTOR[1].state = "WaitingSecondUp"
    /\ DOUBLE_TAP_DETECTOR[1].target_key = Some("ShiftLeft")
    /\ DOUBLE_TAP_DETECTOR[1].recording
    /\ DOUBLE_TAP_DETECTOR[1].state_entered_at > MAX_HOLD_DURATION_MS
    /\ cb.event = Some(KeyPress("ShiftLeft"))

\* C13: while less than COOLDOWN_MS has passed since last_fired_at,
\* handle_event returns false for every event and leaves state,
\* state_entered_at, last_fired_at and recording unchanged.
C13_CooldownFrame ==
    [][\A e \in EventTypes :
         (/\ DOUBLE_TAP_DETECTOR # None
          /\ DOUBLE_TAP_DETECTOR[1].last_fired_at # None
          /\ DOUBLE_TAP_DETECTOR[1].last_fired_at[1] < COOLDOWN_MS
          /\ UnitDtap(e))
         => (~cb'.dtap_fired /\ UNCHANGED DOUBLE_TAP_DETECTOR)]_vars

\* a Press of the target has been handled during the cooldown of a fire
C13_PressInCooldown ==
    /\ DOUBLE_TAP_DETECTOR # None
    /\ DOUBLE_TAP_DETECTOR[1].last_fired_at = Some(0)
    /\ DOUBLE_TAP_DETECTOR[1].target_key = Some("ShiftLeft")
    /\ DOUBLE_TAP_DETECTOR[1].state = "Idle"
    /\ cb.event = Some(KeyPress("ShiftLeft"))
    /\ ~cb.dtap_fired

\* C14: with recording true, a Press of the target from Idle followed by its
\* Release within MAX_HOLD_DURATION_MS fires on the release, sets
\* last_fired_at to now and ends in Idle; a Release after
\* MAX_HOLD_DURATION_MS fires nothing and ends in Idle; a Press of a
\* non-modifier key in between fires nothing and ends in Idle, from where
\* the Release of the target fires nothing.
C14_SingleTapStops ==
    [][LET d == DOUBLE_TAP_DETECTOR[1]
           after == DOUBLE_TAP_DETECTOR'[1]
       IN  /\ (scn'.rec /\ scn'.phase = "R1" /\ scn'.t = 0)
              => /\ scn'.rets = <<FALSE, TRUE>>
                 /\ after.state = "Idle"
                 /\ after.last_fired_at = Some(0)
           /\ (scn'.rec /\ scn'.phase = "RL" /\ scn'.t = 0)
              => /\ scn'.rets = <<FALSE, FALSE>>
                 /\ after.state = "Idle"
                 /\ after.last_fired_at = d.last_fired_at
           /\ \A k \in Keys :
                (/\ DOUBLE_TAP_DETECTOR # None
                 /\ d.recording /\ ~is_modifier(k)
                 /\ d.target_key \notin {None, Some(k)}
                 /\ \/ d.state = "WaitingFirstUp" /\ UnitDtap(KeyPress(k))
                    \/ /\ d.state = "Idle" /\ cb.event = Some(KeyPress(k))
                       /\ \E r \in Keys : /\ d.target_key = Some(r)
                                          /\ UnitDtap(KeyRelease(r)))
                => (~cb'.dtap_fired /\ after.state = "Idle")]_vars

\* a single tap has fired with recording set
C14_StoppedByTap ==
    /\ scn.rec /\ scn.phase = "R1"
    /\ scn.rets = <<FALSE, TRUE>>
    /\ DOUBLE_TAP_DETECTOR[1].last_fired_at = Some(0)

\* C15: for a HoldDownDetector bound to a target: in Idle and outside the
\* cooldown a Press of the target returns Start and enters Held; in Held a
\* Press of the target returns None and changes nothing; in Held a Release of
\* the target returns Stop, enters Idle and sets last_stopped_at to now,
\* whether or not the detector is in cooldown.
C15_HoldStartStop ==
    [][\A k \in Keys :
         LET h == HOLD_DOWN_DETECTOR[1]
             after == HOLD_DOWN_DETECTOR'[1]
             bound == HOLD_DOWN_DETECTOR # None /\ h.target_key = Some(k)
             cooling == /\ h.last_stopped_at # None
                        /\ h.last_stopped_at[1] < HOLD_DOWN_COOLDOWN_MS
         IN  /\ (bound /\ h.state = "Idle" /\ ~cooling /\ UnitHold(KeyPress(k)))
                => (cb'.hold_result = "Start" /\ after.state = "Held")
             /\ (bound /\ h.state = "Held" /\ UnitHold(KeyPress(k)))
                => (cb'.hold_result = "None" /\ after = h)
             /\ (bound /\ h.state = "Held" /\ UnitHold(KeyRelease(k)))
                => /\ cb'.hold_result = "Stop"
                   /\ after.state = "Idle"
                   /\ after.last_stopped_at = Some(0)]_vars

\* a hold of the target has been stopped by its Release
C15_StoppedAgain ==
    /\ HOLD_DOWN_DETECTOR # None
    /\ HOLD_DOWN_DETECTOR[1].state = "Idle"
    /\ HOLD_DOWN_DETECTOR[1].last_stopped_at = Some(0)
    /\ cb.event = Some(KeyRelease("ShiftLeft"))
    /\ cb.hold_result = "Stop"

\* C16: in Held a Press of a non-modifier key other than the target returns
\* Stop, enters Idle and sets last_stopped_at to now; in Idle a Release of
\* the target returns None and changes nothing, so the cancelled hold stops
\* once; in Idle a Press of the target within HOLD_DOWN_COOLDOWN_MS of the
\* stop returns None and changes nothing.
C16_LetterCancels ==
    [][\A k \in Keys :
         LET h == HOLD_DOWN_DETECTOR[1]
             after == HOLD_DOWN_DETECTOR'[1]
             cooling == /\ h.last_stopped_at # None
                        /\ h.last_stopped_at[1] < HOLD_DOWN_COOLDOWN_MS
         IN  /\ (/\ HOLD_DOWN_DETECTOR # None
                 /\ h.state = "Held"
                 /\ h.target_key \notin {None, Some(k)}
                 /\ ~is_modifier(k)
                 /\ UnitHold(KeyPress(k)))
                => /\ cb'.hold_result = "Stop"
                   /\ after.state = "Idle"
                   /\ after.last_stopped_at = Some(0)
             /\ (/\ HOLD_DOWN_DETECTOR # None
                 /\ h.state = "Idle"
                 /\ h.target_key = Some(k)
                 /\ \/ UnitHold(KeyRelease(k))
                    \/ cooling /\ UnitHold(KeyPress(k)))
                => (cb'.hold_result = "None" /\ after = h)]_vars

\* a hold of the target has been cancelled by the Press of a letter
C16_CancelledByLetter ==
    /\ HOLD_DOWN_DETECTOR # None
    /\ HOLD_DOWN_DETECTOR[1].target_key = Some("ShiftLeft")
    /\ HOLD_DOWN_DETECTOR[1].state = "Idle"
    /\ HOLD_DOWN_DETECTOR[1].last_stopped_at = Some(0)
    /\ cb.event = Some(KeyPress("KeyA"))
    /\ cb.hold_result = "Stop"

\* C17: set_target(key) leaves a DoubleTapDetector and a HoldDownDetector Idle
\* and bound to key, whatever state the detector was in, and
\* HoldDownDetector's set_target returns true exactly when the detector was
\* Held when it was called.
C17_SetTargetRebinds ==
    [][\A k \in OptKeys :
         /\ UnitDtapSetTarget(k)
            => /\ DOUBLE_TAP_DETECTOR'[1].state = "Idle"
               /\ DOUBLE_TAP_DETECTOR'[1].target_key = k
         /\ UnitHoldSetTarget(k)
            => /\ HOLD_DOWN_DETECTOR'[1].state = "Idle"
               /\ HOLD_DOWN_DETECTOR'[1].target_key = k
               /\ ctl'.was_held <=> HOLD_DOWN_DETECTOR[1].state = "Held"]_vars

\* a hold detector that was Held has been bound to another key
C17_ReboundWhileHeld ==
    /\ HOLD_DOWN_DETECTOR # None
    /\ HOLD_DOWN_DETECTOR[1].state = "Idle"
    /\ HOLD_DOWN_DETECTOR[1].target_key = Some("KeyA")
    /\ ctl.target = Some("KeyA")
    /\ ctl.was_held

\* C18: in HoldDown mode, when start_listener or set_target_key moves the
\* hold detector from Held to Idle after the callback has emitted the
\* hold-down-start of that hold, the operation reports the hold as stopped
\* to its caller, which emits hold-down-stop.
C18_RebindReportsStop ==
    [][(/\ HOLD_DOWN_DETECTOR # None
        /\ HOLD_DOWN_DETECTOR[1].state = "Held"
        /\ cb.pc = "idle"
        /\ SlHold \/ TkHold)
       => ctl'.was_held]_vars

\* C19: a hotkey string that names no key binds the detectors to None; while
\* a detector's target_key is None its handle_event returns false
\* (DoubleTapDetector) or None (HoldDownDetector) for every event and leaves
\* the detector unchanged, and no step emits a signal.
C19_UnboundNeverFires ==
    [][/\ emit' = None
       /\ DOUBLE_TAP_DETECTOR' # None => DOUBLE_TAP_DETECTOR'[1].target_key = None
       /\ HOLD_DOWN_DETECTOR' # None => HOLD_DOWN_DETECTOR'[1].target_key = None
       /\ (/\ DOUBLE_TAP_DETECTOR # None
           /\ DOUBLE_TAP_DETECTOR[1].target_key = None
           /\ CbDoubleTap \/ CbFeedDtap)
          => (UNCHANGED DOUBLE_TAP_DETECTOR /\ ~cb'.dtap_fired)
       /\ (/\ HOLD_DOWN_DETECTOR # None
           /\ HOLD_DOWN_DETECTOR[1].target_key = None
           /\ CbHoldDown \/ CbFeedHold)
          => (UNCHANGED HOLD_DOWN_DETECTOR /\ cb'.hold_result = "None")]_vars

\* a Press is about to be fed to a hold detector that start_listener has
\* bound to no key
C19_FedWhileUnbound ==
    /\ LISTENER_ACTIVE
    /\ HOLD_DOWN_DETECTOR # None
    /\ HOLD_DOWN_DETECTOR[1].target_key = None
    /\ cb.pc = "hold_down"
    /\ cb.event = Some(KeyPress("ShiftLeft"))

\* C20: a key event that arrives while LISTENER_ACTIVE is false makes the
\* callback return before it reads the mode: the callback stays between two
\* events, no detector, counter, promoted flag or timer changes and no
\* signal is emitted.
C20_DroppedWhenNotListening ==
    [][\A e \in TargetEvents :
         (~LISTENER_ACTIVE /\ CbBegin(e))
         => /\ cb' = cb
            /\ UNCHANGED <<ACTIVE_MODE, detectors, both_state, timers>>
            /\ emit' = None]_vars

\* the listener thread is alive and stop_listener has returned: key events
\* arrive while LISTENER_ACTIVE is false
C20_StoppedThreadAlive ==
    /\ ~LISTENER_ACTIVE /\ LISTENER_THREAD_SPAWNED
    /\ cb.pc = "idle" /\ ctl.pc = "idle" /\ errT = "none"
    /\ HOLD_PRESS_COUNTER > 0

\* C21: stop_listener sets LISTENER_ACTIVE to false; its two resets keep each
\* detector instance with its target_key, its cooldown anchor and, for the
\* double-tap detector, its recording flag; when it returns listening is
\* false, both detectors are Idle, promoted is false and the counter is one
\* more than before its last step.
C21_StopListenerEffect ==
    [][/\ StopListener => (~LISTENER_ACTIVE' /\ UNCHANGED detectors)
       /\ (StDtap /\ DOUBLE_TAP_DETECTOR # None)
          => /\ DOUBLE_TAP_DETECTOR' # None
             /\ DOUBLE_TAP_DETECTOR'[1].target_key = DOUBLE_TAP_DETECTOR[1].target_key
             /\ DOUBLE_TAP_DETECTOR'[1].last_fired_at = DOUBLE_TAP_DETECTOR[1].last_fired_at
             /\ DOUBLE_TAP_DETECTOR'[1].recording = DOUBLE_TAP_DETECTOR[1].recording
       /\ (StHold /\ HOLD_DOWN_DETECTOR # None)
          => /\ HOLD_DOWN_DETECTOR' # None
             /\ HOLD_DOWN_DETECTOR'[1].target_key = HOLD_DOWN_DETECTOR[1].target_key
             /\ HOLD_DOWN_DETECTOR'[1].last_stopped_at = HOLD_DOWN_DETECTOR[1].last_stopped_at
       /\ StCounter
          => /\ ~LISTENER_ACTIVE'
             /\ DOUBLE_TAP_DETECTOR' # None => DOUBLE_TAP_DETECTOR'[1].state = "Idle"
             /\ HOLD_DOWN_DETECTOR' # None => HOLD_DOWN_DETECTOR'[1].state = "Idle"
             /\ ~HOLD_PROMOTED'
             /\ HOLD_PRESS_COUNTER' = HOLD_PRESS_COUNTER + 1]_vars

\* C22: at most one listener thread exists at a time: a thread that runs the
\* callback never exists together with an earlier listener thread that is
\* still executing.
C22_OneListenerThread ==
    ~(cb.pc # "none" /\ errT # "none")

\* C23: HOLD_PRESS_COUNTER never decreases; the callback's handling of a hold
\* Start and of a hold Stop in Both mode, stop_listener's last step and the
\* last step of set_processing on either transition each increase it; and
\* when a start_listener that switched the mode of a running listener
\* returns, the counter is greater than it was when the call began.
C23_CounterIncreases ==
    [][/\ HOLD_PRESS_COUNTER' >= HOLD_PRESS_COUNTER
       /\ (CbStartSpawn \/ CbStopInc \/ StCounter \/ PeCounter \/ PxCounter)
          => HOLD_PRESS_COUNTER' > HOLD_PRESS_COUNTER
       /\ (SlSpawn /\ ctl.switched)
          => HOLD_PRESS_COUNTER' > ctl.counter]_vars

\* C24: in Both mode, when the callback reads the phase of an event while the
\* double-tap detector is in WaitingSecondDown or WaitingSecondUp and at most
\* DOUBLE_TAP_WINDOW_MS after it entered that state, it goes on to feed the
\* double-tap detector without feeding the hold detector; the rest of the
\* handling of that event feeds the event to the double-tap detector and
\* changes neither the hold detector, the counter, promoted nor the timers.
C24_SecondPhaseSkipsHold ==
    [][/\ (/\ CbPhase
           /\ DOUBLE_TAP_DETECTOR[1].state \in {"WaitingSecondDown", "WaitingSecondUp"}
           /\ DOUBLE_TAP_DETECTOR[1].state_entered_at <= DOUBLE_TAP_WINDOW_MS)
          => /\ cb'.dtap_second_phase
             /\ cb'.pc = "feed_dtap"
             /\ cb'.hold_result = "None"
       /\ (cb.dtap_second_phase /\ cb' # cb)
          => /\ UNCHANGED <<HOLD_DOWN_DETECTOR, HOLD_PRESS_COUNTER, HOLD_PROMOTED, timers>>
             /\ cb.pc = "feed_dtap"
                => DOUBLE_TAP_DETECTOR' =
                     Some(DoubleTapDetector_handle_event(DOUBLE_TAP_DETECTOR[1],
                                                         cb.event[1]).det)]_vars

\* the second press of a double tap has been handled: it arrived after the
\* hold detector's cooldown had ended, the double-tap detector took it and
\* the hold detector, not fed, is still Idle
C24_SecondPressNotHeld ==
    /\ cb.pc = "idle"
    /\ DOUBLE_TAP_DETECTOR[1].state = "WaitingSecondUp"
    /\ DOUBLE_TAP_DETECTOR[1].state_entered_at = 0
    /\ HOLD_DOWN_DETECTOR[1].state = "Idle"
    /\ HOLD_DOWN_DETECTOR[1].last_stopped_at # None
    /\ HOLD_DOWN_DETECTOR[1].last_stopped_at[1] >= HOLD_DOWN_COOLDOWN_MS

\* C25: in Both mode the handling of one key event emits at most one signal:
\* only the callback's emit step emits, and the callback returns with it.  On
\* a hold Stop the callback loads promoted, stores false, increments the
\* counter and then emits hold-down-stop if the value loaded was true,
\* otherwise double-tap-toggle if the double-tap detector fired on this
\* event, otherwise nothing.
C25_OneSignalPerEvent ==
    [][/\ (cb' # cb /\ ~CbEmit) => emit' = None
       /\ CbEmit => cb' = CbFrame("idle")
       /\ CbStopLoad => cb'.promoted = HOLD_PROMOTED
       /\ CbStopStore => ~HOLD_PROMOTED'
       /\ CbStopInc
          => /\ HOLD_PRESS_COUNTER' = HOLD_PRESS_COUNTER + 1
             /\ cb'.pc = IF cb.promoted THEN "emit_hold_stop"
                         ELSE IF cb.dtap_fired THEN "emit_double_tap"
                         ELSE "idle"
       /\ (CbEmit /\ cb.hold_result = "Stop")
          => emit' = IF cb.promoted THEN Some("hold-down-stop")
                     ELSE Some("double-tap-toggle")]_vars

\* the Release that ends a promoted hold has also fired the double-tap
\* detector, and the callback is about to emit hold-down-stop alone
C25_PromotedAndFired ==
    /\ cb.pc = "emit_hold_stop"
    /\ cb.hold_result = "Stop"
    /\ cb.promoted /\ cb.dtap_fired

\* C26: in Both mode no step of the callback that handles a Press of the
\* target emits a signal; hold-down-start is emitted only by a promotion
\* timer that has slept MAX_HOLD_DURATION_MS; and once the release of a
\* target press made from an idle state with recording false has been
\* handled while the timer of that press was still asleep, the gesture has
\* emitted no signal and the double-tap detector is in WaitingSecondDown.
C26_PressEmitsNothing ==
    [][/\ (cb.event = Some(KeyPress("ShiftLeft")) /\ cb' # cb) => emit' = None
       /\ emit' = Some("hold-down-start")
          => \E t \in timers : TimerEmit(t) /\ t.slept >= MAX_HOLD_DURATION_MS
       /\ (/\ scn'.phase \in {"R1", "RL"} /\ ~scn'.rec /\ scn'.t = 0
           /\ cb.pc # "idle" /\ cb'.pc = "idle"
           /\ \E t \in timers' : /\ t.press_id + 1 = HOLD_PRESS_COUNTER'
                                 /\ t.pc = "sleep")
          => /\ scn'.sig = << >>
             /\ DOUBLE_TAP_DETECTOR'[1].state = "WaitingSecondDown"]_vars

\* C27: any event handled by a double-tap detector that is in
\* WaitingSecondDown more than DOUBLE_TAP_WINDOW_MS after it entered that
\* state resets the detector to Idle and returns false, whatever the event:
\* a Press of the target does not take it to WaitingFirstUp or
\* WaitingSecondUp.
C27_ExpiredWindowConsumes ==
    [][\A e \in EventTypes :
         (/\ UnitDtap(e)
          /\ DOUBLE_TAP_DETECTOR[1].state = "WaitingSecondDown"
          /\ DOUBLE_TAP_DETECTOR[1].state_entered_at > DOUBLE_TAP_WINDOW_MS)
         => /\ DOUBLE_TAP_DETECTOR'[1] = DoubleTapDetector_reset(DOUBLE_TAP_DETECTOR[1])
            /\ DOUBLE_TAP_DETECTOR'[1].state = "Idle"
            /\ ~cb'.dtap_fired]_vars

\* a Press of the target has been handled after the window of a single quick
\* tap had expired, and the detector is Idle
C27_PressAfterWindow ==
    /\ scn.phase = "EX"
    /\ cb.event = Some(KeyPress("ShiftLeft"))
    /\ DOUBLE_TAP_DETECTOR[1].target_key = Some("ShiftLeft")
    /\ DOUBLE_TAP_DETECTOR[1].state = "Idle"
    /\ DOUBLE_TAP_DETECTOR[1].state_entered_at = 0

\* C28: in every reachable state of a double-tap detector with a bound
\* target, recording false and no cooldown active, in which the target key
\* is up and the window of an earlier tap, if any, has expired (the detector
\* is Idle, or in WaitingSecondDown for more than DOUBLE_TAP_WINDOW_MS), the
\* four events of a quick double tap of the target, handled one after the
\* other, return false, false, false and true.
C28_FreshDoubleTapFires ==
    LET d == DOUBLE_TAP_DETECTOR[1]
        settled == \/ d.state = "Idle"
                   \/ d.state = "WaitingSecondDown"
                      /\ d.state_entered_at > DOUBLE_TAP_WINDOW_MS
    IN  (/\ DOUBLE_TAP_DETECTOR # None
         /\ d.target_key # None /\ ~d.recording
         /\ ~DoubleTapDetector_in_cooldown(d)
         /\ settled)
        => LET k  == d.target_key[1]
               r1 == DoubleTapDetector_handle_event(d, KeyPress(k))
               r2 == DoubleTapDetector_handle_event(r1.det, KeyRelease(k))
               r3 == DoubleTapDetector_handle_event(r2.det, KeyPress(k))
               r4 == DoubleTapDetector_handle_event(r3.det, KeyRelease(k))
           IN  <<r1.fired, r2.fired, r3.fired, r4.fired>>
                 = <<FALSE, FALSE, FALSE, TRUE>>

\* C29: a Release of the target handled by a double-tap detector that is
\* Idle, or in WaitingSecondDown at most DOUBLE_TAP_WINDOW_MS after entering
\* it, leaves the detector as it is and returns false; handled by a hold
\* detector that is Idle it leaves the detector as it is and returns None;
\* and a Press of a key that is not the target, handled by an Idle detector
\* of either kind, leaves the detector as it is and returns false or None.
C29_UnmatchedIsNoOp ==
    [][\A e \in EventTypes :
         LET d == DOUBLE_TAP_DETECTOR[1]
             h == HOLD_DOWN_DETECTOR[1]
             unmatched(target) == e.type = "KeyRelease" /\ target = Some(e.key)
             foreign(target) == e.type = "KeyPress" /\ target # Some(e.key)
         IN  /\ (/\ UnitDtap(e)
                 /\ \/ d.state = "Idle" /\ unmatched(d.target_key)
                    \/ d.state = "Idle" /\ foreign(d.target_key)
                    \/ /\ d.state = "WaitingSecondDown"
                       /\ d.state_entered_at <= DOUBLE_TAP_WINDOW_MS
                       /\ unmatched(d.target_key))
                => (UNCHANGED DOUBLE_TAP_DETECTOR /\ ~cb'.dtap_fired)
             /\ (/\ UnitHold(e)
                 /\ h.state = "Idle"
                 /\ unmatched(h.target_key) \/ foreign(h.target_key))
                => (UNCHANGED HOLD_DOWN_DETECTOR /\ cb'.hold_result = "None")]_vars

\* a Release of the target has been handled by a hold detector that has been
\* Idle since it was bound (the double-tap detector, in WaitingFirstUp, has
\* not seen the Release), and the hold detector is still Idle
C29_ReleaseWithoutPress ==
    /\ cb.event = Some(KeyRelease("ShiftLeft"))
    /\ cb.hold_result = "None"
    /\ DOUBLE_TAP_DETECTOR[1].state = "WaitingFirstUp"
    /\ HOLD_DOWN_DETECTOR[1].state = "Idle"
    /\ HOLD_DOWN_DETECTOR[1].target_key = Some("ShiftLeft")
    /\ HOLD_DOWN_DETECTOR[1].last_stopped_at = None

\* C30: a Press of a modifier key that is not the target resets a double-tap
\* detector in WaitingSecondDown to Idle; in WaitingFirstUp and
\* WaitingSecondUp it leaves the detector as it is while at most
\* MAX_HOLD_DURATION_MS have elapsed since the state was entered and resets
\* it to Idle once more have; none of these returns true.  Handled by a hold
\* detector that is Held it returns None and leaves the detector Held.
C30_OtherModifierPress ==
    [][\A e \in EventTypes :
         LET d == DOUBLE_TAP_DETECTOR[1]
             h == HOLD_DOWN_DETECTOR[1]
             other(target) == /\ e.type = "KeyPress" /\ is_modifier(e.key)
                              /\ target # None /\ target # Some(e.key)
         IN  /\ (UnitDtap(e) /\ other(d.target_key))
                => /\ ~cb'.dtap_fired
                   /\ d.state = "WaitingSecondDown"
                      => DOUBLE_TAP_DETECTOR'[1] = DoubleTapDetector_reset(d)
                   /\ d.state \in {"WaitingFirstUp", "WaitingSecondUp"}
                      => DOUBLE_TAP_DETECTOR'[1] =
                           IF d.state_entered_at <= MAX_HOLD_DURATION_MS
                           THEN d ELSE DoubleTapDetector_reset(d)
             /\ (UnitHold(e) /\ other(h.target_key) /\ h.state = "Held")
                => (UNCHANGED HOLD_DOWN_DETECTOR /\ cb'.hold_result = "None")]_vars

\* a Press of Alt has been handled by a detector bound to ShiftLeft: by the
\* double-tap detector in WaitingSecondUp, which has kept its state, or by
\* the hold detector in Held, which is still Held
C30_AltDuringShift ==
    /\ cb.event = Some(KeyPress("Alt"))
    /\ cb.hold_result = "None" /\ ~cb.dtap_fired
    /\ DOUBLE_TAP_DETECTOR[1].target_key = Some("ShiftLeft")
    /\ DOUBLE_TAP_DETECTOR[1].state = "WaitingSecondUp"
    /\ DOUBLE_TAP_DETECTOR[1].state_entered_at = 0
    /\ HOLD_DOWN_DETECTOR[1].target_key = Some("ShiftLeft")
    /\ HOLD_DOWN_DETECTOR[1].state = "Held"

\* C31: once a HoldDownDetector has returned Stop (it is Idle and
\* last_stopped_at is set), a Press of its target handled less than
\* HOLD_DOWN_COOLDOWN_MS after the Stop returns None and leaves the detector
\* Idle and unchanged, and a Press of its target handled
\* HOLD_DOWN_COOLDOWN_MS or more after the Stop returns Start and enters Held.
C31_CooldownAfterStop ==
    [][\A k \in Keys :
         LET h == HOLD_DOWN_DETECTOR[1]
             after == HOLD_DOWN_DETECTOR'[1]
         IN  (/\ h.state = "Idle"
              /\ h.target_key = Some(k)
              /\ h.last_stopped_at # None
              /\ UnitHold(KeyPress(k)))
             => IF h.last_stopped_at[1] < HOLD_DOWN_COOLDOWN_MS
                THEN cb'.hold_result = "None" /\ after = h
                ELSE /\ cb'.hold_result = "Start"
                     /\ after = [h EXCEPT !.state = "Held"]]_vars

\* a Press of the target has returned Start once the cooldown of an earlier
\* Stop had elapsed
C31_StartAfterCooldown ==
    /\ HOLD_DOWN_DETECTOR[1].state = "Held"
    /\ HOLD_DOWN_DETECTOR[1].target_key = Some("ShiftLeft")
    /\ HOLD_DOWN_DETECTOR[1].last_stopped_at # None
    /\ HOLD_DOWN_DETECTOR[1].last_stopped_at[1] >= HOLD_DOWN_COOLDOWN_MS
    /\ cb.event = Some(KeyPress("ShiftLeft"))
    /\ cb.hold_result = "Start"

\* C32: whenever less than COOLDOWN_MS has passed since a double-tap
\* detector's last_fired_at the detector is Idle, and whenever less than
\* HOLD_DOWN_COOLDOWN_MS has passed since a hold detector's last_stopped_at
\* the detector is Idle.
C32_CoolingIsIdle ==
    /\ (/\ DOUBLE_TAP_DETECTOR # None
        /\ DOUBLE_TAP_DETECTOR[1].last_fired_at # None
        /\ DOUBLE_TAP_DETECTOR[1].last_fired_at[1] < COOLDOWN_MS)
       => DOUBLE_TAP_DETECTOR[1].state = "Idle"
    /\ (/\ HOLD_DOWN_DETECTOR # None
        /\ HOLD_DOWN_DETECTOR[1].last_stopped_at # None
        /\ HOLD_DOWN_DETECTOR[1].last_stopped_at[1] < HOLD_DOWN_COOLDOWN_MS)
       => HOLD_DOWN_DETECTOR[1].state = "Idle"

\* in Both mode a Press of the target has been fed to the hold detector
\* during the cooldown seeded by set_processing(false): the detector is
\* still Idle, and the double-tap detector, also in cooldown, is fed next
C32_PressWhileCooling ==
    /\ cb.pc = "feed_dtap"
    /\ cb.event = Some(KeyPress("ShiftLeft"))
    /\ ~cb.dtap_second_phase
    /\ cb.hold_result = "None"
    /\ HOLD_DOWN_DETECTOR[1].state = "Idle"
    /\ HOLD_DOWN_DETECTOR[1].last_stopped_at = Some(0)
    /\ DOUBLE_TAP_DETECTOR[1].last_fired_at = Some(0)
    /\ ~IS_PROCESSING /\ ctl.pc = "idle"

\* C33: in Both mode, with events handled one at a time and no rebinding,
\* whenever the callback finds the double-tap detector in its second phase
\* (and so does not feed the hold detector) the hold detector is Idle; and a
\* Release of the target that arrives while the hold detector is Held is
\* fed to it and returns Stop.
C33_SuppressedOnlyWhenIdle ==
    [][/\ (CbPhase /\ cb'.dtap_second_phase)
          => HOLD_DOWN_DETECTOR[1].state = "Idle"
       /\ (/\ cb.event = Some(KeyRelease("ShiftLeft"))
           /\ HOLD_DOWN_DETECTOR[1].state = "Held")
          => /\ CbPhase => cb'.pc = "feed_hold"
             /\ CbFeedHold => cb'.hold_result = "Stop"]_vars

\* the Release of the second tap of a double tap is being handled in the
\* second phase: the hold detector, which stopped with the first tap, is
\* Idle and is not fed
C33_ReleaseSuppressed ==
    /\ cb.pc = "feed_dtap"
    /\ cb.dtap_second_phase
    /\ cb.event = Some(KeyRelease("ShiftLeft"))
    /\ DOUBLE_TAP_DETECTOR[1].state = "WaitingSecondUp"
    /\ HOLD_DOWN_DETECTOR[1].state = "Idle"
    /\ HOLD_DOWN_DETECTOR[1].last_stopped_at # None

\* C34: in Both mode, among the signals emitted since a press of the target
\* made from an idle state, every hold-down-stop comes after a
\* hold-down-start.
C34_StopAfterStart ==
    Watching(scn) =>
        \A i \in 1..Len(scn.sig) :
            scn.sig[i] = "hold-down-stop"
            => \E j \in 1..(i - 1) : scn.sig[j] = "hold-down-start"

\* C35: in Both mode set_target_key returns true only if a hold-down-start
\* has been emitted and not yet matched by a hold-down-stop: while the only
\* promotion timer ever spawned is still asleep, so that no hold-down-start
\* has been emitted at all, the call does not take was_held = true from the
\* hold detector.
C35_TrueOnlyIfPromoted ==
    [][(/\ ACTIVE_MODE = "Both" /\ ctl.mode = "Both"
        /\ HOLD_PRESS_COUNTER = 1
        /\ \E t \in timers : t.press_id = 1 /\ t.pc = "sleep"
        /\ TkHold)
       => ~ctl'.was_held]_vars

\* C36: in every mode and under every operation, a hold-down-start is
\* emitted only when every hold-down-start emitted before it has been
\* followed by a hold-down-stop
C36_StartsAlternateWithStops ==
    [][(emit' = Some("hold-down-start")) => ~scn.holding]_vars

\* C37: set_processing(p) called while the processing flag already equals p
\* ends at once and changes nothing: the flag, both detectors with their
\* cooldown anchors, HOLD_PROMOTED and HOLD_PRESS_COUNTER are as before and
\* neither branch is entered
C37_SameFlagNoEffect ==
    [][\A p \in BOOLEAN :
          (SetProcessing(p) /\ IS_PROCESSING = p)
          => /\ ctl' = CtlIdle
             /\ UNCHANGED <<IS_PROCESSING, detectors, HOLD_PROMOTED,
                            HOLD_PRESS_COUNTER>>]_vars

\* set_processing(false) was called twice while nothing was being
\* processed and the bound key is still held
C37_RepeatedFalseKeepsHeld ==
    /\ ACTIVE_MODE = "HoldDown" /\ ops = 2 /\ ctl.pc = "idle"
    /\ ~IS_PROCESSING /\ HOLD_PRESS_COUNTER = 0
    /\ HOLD_DOWN_DETECTOR # None /\ HOLD_DOWN_DETECTOR[1].state = "Held"

\* every operation of the module on one listener in Both mode: the callback
\* and the promotion timers, and up to two of the five control operations
\* running beside them, one after the other
CbSteps ==
    \/ CbMode \/ CbProcessing \/ CbPhase
    \/ CbFeedHold \/ CbFeedDtap \/ CbStartStore \/ CbStartSpawn
    \/ CbStopLoad \/ CbStopStore \/ CbStopInc \/ CbEmit

CtlSteps ==
    \/ PePromoted \/ PeCounter \/ PeHold \/ PeDtap
    \/ PxHold \/ PxDtap \/ PxPromoted \/ PxCounter
    \/ SlHold \/ SlDtap \/ SlActive \/ SlSpawn
    \/ StDtap \/ StHold \/ StPromoted \/ StCounter
    \/ TkHold \/ TkDtap \/ TkEmit

NextThreads ==
    \/ CallbackBoth(TargetEvents) \/ Timer \/ Tick
    \/ /\ ops < 2 \/ ctl.pc # "idle"
       /\ \/ Processing \/ TargetKey({"shift_l"})
          \/ StartListener("shift_l", "both")
          \/ SlHold \/ SlDtap \/ SlActive \/ SlSpawn
          \/ StopListener \/ StDtap \/ StHold \/ StPromoted \/ StCounter
          \/ RecordingState

\* the steps a thread has left before its end, by program counter
CbRank ==
    [pc \in {"none", "idle", "mode", "double_tap", "hold_down", "processing",
             "phase", "feed_hold", "feed_dtap", "start_store", "start_spawn",
             "stop_load", "stop_store", "stop_inc", "emit_double_tap",
             "emit_hold_start", "emit_hold_stop"} |->
        CASE pc \in {"none", "idle"} -> 0
          [] pc \in {"emit_double_tap", "emit_hold_start", "emit_hold_stop",
                     "start_spawn"} -> 1
          [] pc \in {"stop_inc", "start_store", "double_tap", "hold_down"} -> 2
          [] pc = "stop_store" -> 3
          [] pc = "stop_load" -> 4
          [] pc = "feed_dtap" -> 5
          [] pc = "feed_hold" -> 6
          [] pc = "phase" -> 7
          [] pc = "processing" -> 8
          [] pc = "mode" -> 9]

CtlRank ==
    [pc \in {"idle", "sl_hold", "sl_dtap", "sl_active", "sl_spawn",
             "st_dtap", "st_hold", "st_promoted", "st_counter",
             "tk_hold", "tk_dtap", "tk_emit",
             "pe_promoted", "pe_counter", "pe_hold", "pe_dtap",
             "px_hold", "px_dtap", "px_promoted", "px_counter"} |->
        CASE pc = "idle" -> 0
          [] pc \in {"sl_spawn", "st_counter", "tk_emit", "pe_dtap", "px_counter"} -> 1
          [] pc \in {"sl_active", "st_promoted", "tk_dtap", "pe_hold", "px_promoted"} -> 2
          [] pc \in {"sl_dtap", "st_hold", "tk_hold", "pe_counter", "px_dtap"} -> 3
          [] pc \in {"sl_hold", "st_dtap", "pe_promoted", "px_hold"} -> 4]

TimerRank ==
    [pc \in {"sleep", "held", "store", "emit"} |->
        CASE pc = "sleep" -> 4 [] pc = "held" -> 3
          [] pc = "store" -> 2 [] pc = "emit" -> 1]

SpecThreads == Started("shift_l", "Both", ScnOff) /\ [][NextThreads]_vars

KbSetProcessing(processing) ==
    /\ IS_PROCESSING' = processing
    /\ IF ~IS_PROCESSING /\ processing
       THEN /\ HOLD_PROMOTED' = FALSE
            /\ HOLD_PRESS_COUNTER' = HOLD_PRESS_COUNTER + 1
            /\ HOLD_DOWN_DETECTOR' =
                 IF HOLD_DOWN_DETECTOR = None THEN None
                 ELSE Some(HoldDownDetector_reset(HOLD_DOWN_DETECTOR[1]))
            /\ DOUBLE_TAP_DETECTOR' =
                 IF DOUBLE_TAP_DETECTOR = None THEN None
                 ELSE Some(DoubleTapDetector_reset(DOUBLE_TAP_DETECTOR[1]))
       ELSE IF IS_PROCESSING /\ ~processing
       THEN /\ HOLD_DOWN_DETECTOR' =
                 IF HOLD_DOWN_DETECTOR = None THEN None
                 ELSE Some([HoldDownDetector_reset(HOLD_DOWN_DETECTOR[1])
                              EXCEPT !.last_stopped_at = Some(0)])
            /\ DOUBLE_TAP_DETECTOR' =
                 IF DOUBLE_TAP_DETECTOR = None THEN None
                 ELSE Some([DoubleTapDetector_reset(DOUBLE_TAP_DETECTOR[1])
                              EXCEPT !.last_fired_at = Some(0)])
            /\ HOLD_PROMOTED' = FALSE
            /\ HOLD_PRESS_COUNTER' = HOLD_PRESS_COUNTER + 1
       ELSE UNCHANGED <<detectors, HOLD_PROMOTED, HOLD_PRESS_COUNTER>>

\* the keyboard module is left alone
KbSame == UNCHANGED <<detectors, both_state>>

\* what no recording command touches
AppFrame ==
    /\ emit' = None
    /\ UNCHANGED <<ops, ACTIVE_MODE, listener_state, cb, errT, timers, ctl, scn>>

\* a command that begins
AppBegin(cmd, status) ==
    [AppIdle EXCEPT !.pc = "set_processing", !.cmd = cmd, !.status = status]

\* recording.rs:16-18  IdleGuard::new
IdleGuard_new == [disarmed |-> FALSE]

\* recording.rs:20-22  IdleGuard::disarm
IdleGuard_disarm(g) == [g EXCEPT !.disarmed = TRUE]

IdleGuard_never_armed(g) == FALSE

\* recording.rs:27  drop resets unless the guard was disarmed
IdleGuard_armed(g) == ~g.disarmed

\* recording.rs:25-33  Drop for IdleGuard, for the guard g that goes out of
\* scope while the command moves on to pc
IdleGuard_drop(g, a) ==
    IF g # None /\ IdleGuard_armed(g[1])
    THEN /\ app' = [a EXCEPT !.status = "Idle", !.exited = a.entered]
         /\ KbSetProcessing(FALSE)
    ELSE /\ app' = a
         /\ KbSame

\* recording.rs:198-241  start_native_recording; audio::start_recording may fail
StartNativeRecording(ok) ==
    /\ app.pc = "idle" /\ app.status = "Idle"
    /\ app' = [AppIdle EXCEPT !.cmd = "start_native_recording",
                             !.status = IF ok THEN "Recording" ELSE "Idle",
                             !.result = IF ok THEN "ok" ELSE "err"]
    /\ KbSame /\ AppFrame

\* recording.rs:332-348  cancel_native_recording
CancelNativeRecording ==
    /\ app.pc = "idle" /\ app.status = "Recording"
    /\ app' = [AppIdle EXCEPT !.cmd = "cancel_native_recording", !.result = "ok"]
    /\ KbSame /\ AppFrame

\* recording.rs:92-100  process_audio: the status becomes Processing
ProcessAudio ==
    /\ app.pc = "idle" /\ HOLD_PRESS_COUNTER + 2 <= MaxCounter
    /\ app' = AppBegin("process_audio", "Processing")
    /\ KbSame /\ AppFrame

\* recording.rs:244-267  stop_native_recording: check and set the status
StopNativeRecording ==
    /\ app.pc = "idle" /\ HOLD_PRESS_COUNTER + 2 <= MaxCounter
    /\ app' = IF app.status = "Recording"
              THEN AppBegin("stop_native_recording", "Processing")
              ELSE [AppIdle EXCEPT !.cmd = "stop_native_recording",
                                   !.status = app.status, !.result = "ok"]
    /\ KbSame /\ AppFrame

\* recording.rs:101-105, 268-274  set_processing(true), then the guard is made
CmdSetProcessing ==
    /\ app.pc = "set_processing"
    /\ KbSetProcessing(TRUE)
    /\ app' = [app EXCEPT !.pc = "audio", !.entered = TRUE,
                          !.guard = Some(IdleGuard_new)]
    /\ AppFrame

\* recording.rs:107-121, 276-297  the samples are fetched: decoding or
\* stop_recording fails, stop_recording returns no samples, or the guard is
\* disarmed and the pipeline is called
CmdAudio(outcome) ==
    /\ app.pc = "audio"
    /\ outcome = "empty" => app.cmd = "stop_native_recording"
    /\ app' = CASE outcome = "err" -> [app EXCEPT !.pc = "return", !.result = "err"]
                [] outcome = "empty" -> [app EXCEPT !.pc = "return", !.result = "ok"]
                [] outcome = "ok" ->
                     [app EXCEPT !.pc = "pipeline",
                                 !.guard = Some(IdleGuard_disarm(app.guard[1]))]
    /\ KbSame /\ AppFrame

\* recording.rs:36-43  run_transcription_pipeline makes its own guard
PipelineGuard ==
    /\ app.pc = "pipeline"
    /\ app' = [app EXCEPT !.pc = "transcribe",
                          !.pipeline_guard = Some(IdleGuard_new)]
    /\ KbSame /\ AppFrame

\* recording.rs:45-79  load_model, transcribe and the dispatch of the
\* injection each may fail
PipelineRun(ok) ==
    /\ app.pc = "transcribe"
    /\ app' = [app EXCEPT !.pc = "pipeline_drop",
                          !.result = IF ok THEN "ok" ELSE "err"]
    /\ KbSame /\ AppFrame

\* recording.rs:79-80  the pipeline returns and its guard drops
PipelineDrop ==
    /\ app.pc = "pipeline_drop"
    /\ IdleGuard_drop(app.pipeline_guard,
                      [app EXCEPT !.pc = "after", !.pipeline_guard = None])
    /\ AppFrame

\* recording.rs:124, 300  set_processing(false) after the pipeline
CmdAfterPipeline ==
    /\ app.pc = "after"
    /\ KbSetProcessing(FALSE)
    /\ app' = [app EXCEPT !.pc = "return", !.exited = TRUE]
    /\ AppFrame

\* recording.rs:125-132, 283, 289-293, 301-326  the command returns and its
\* guard drops
CmdReturn ==
    /\ app.pc = "return"
    /\ IdleGuard_drop(app.guard, [app EXCEPT !.pc = "idle", !.guard = None])
    /\ AppFrame

NextRecording ==
    \/ \E ok \in BOOLEAN : StartNativeRecording(ok)
    \/ CancelNativeRecording \/ ProcessAudio \/ StopNativeRecording
    \/ CmdSetProcessing
    \/ \E outcome \in {"ok", "err", "empty"} : CmdAudio(outcome)
    \/ PipelineGuard
    \/ \E ok \in BOOLEAN : PipelineRun(ok)
    \/ PipelineDrop \/ CmdAfterPipeline \/ CmdReturn
    \/ Tick

SpecRecording == InitCtl /\ [][NextRecording]_vars

\* C39: a run of process_audio or stop_native_recording that has called
\* set_processing(true) returns, whether with Ok or with Err, only after it
\* has called set_processing(false) and with the dictation status Idle; a
\* guard that is dropped armed resets both, a guard that is dropped disarmed
\* changes nothing
C39_GuardRestoresIdle ==
    [][/\ (app.pc # "idle" /\ app'.pc = "idle" /\ app.entered)
          => (app'.status = "Idle" /\ app'.exited /\ ~IS_PROCESSING')
       /\ \A g \in {app.guard, app.pipeline_guard} :
            (/\ \/ app.pc = "return" /\ g = app.guard
                \/ app.pc = "pipeline_drop" /\ g = app.pipeline_guard
             /\ app'.pc # app.pc /\ g # None)
            => IF g[1].disarmed
               THEN app'.status = app.status /\ UNCHANGED <<detectors, both_state>>
               ELSE app'.status = "Idle" /\ ~IS_PROCESSING']_vars

\* stop_native_recording has returned Err from stop_recording, after the key
\* bindings were told that processing began
C39_ErrorPathReturned ==
    /\ app.pc = "idle" /\ app.cmd = "stop_native_recording"
    /\ app.result = "err" /\ app.entered /\ app.pipeline_guard = None
    /\ HOLD_PRESS_COUNTER = 2 /\ app.status = "Idle"

\* C40: the tap and window thresholds are inclusive and the cooldown
\* thresholds exclusive: a release of the bound key exactly
\* MAX_HOLD_DURATION_MS after its press is a tap, a press exactly
\* DOUBLE_TAP_WINDOW_MS after the first tap is the second press, and a
\* detector accepts a press exactly COOLDOWN_MS (HOLD_DOWN_COOLDOWN_MS) after
\* its cooldown anchor
C40_ThresholdsAtTheBound ==
    [][\A k \in Keys :
         LET d == DOUBLE_TAP_DETECTOR[1]
             d2 == DOUBLE_TAP_DETECTOR'[1]
             h == HOLD_DOWN_DETECTOR[1]
             h2 == HOLD_DOWN_DETECTOR'[1]
         IN  /\ (/\ d.target_key = Some(k) /\ d.state = "WaitingFirstUp"
                 /\ d.state_entered_at = MAX_HOLD_DURATION_MS
                 /\ UnitDtap(KeyRelease(k)))
                => IF d.recording
                   THEN cb'.dtap_fired /\ d2.state = "Idle"
                   ELSE ~cb'.dtap_fired /\ d2.state = "WaitingSecondDown"
             /\ (/\ d.target_key = Some(k) /\ d.state = "WaitingSecondUp"
                 /\ d.state_entered_at = MAX_HOLD_DURATION_MS
                 /\ UnitDtap(KeyRelease(k)))
                => cb'.dtap_fired /\ d2.state = "Idle"
             /\ (/\ d.target_key = Some(k) /\ d.state = "WaitingSecondDown"
                 /\ d.state_entered_at = DOUBLE_TAP_WINDOW_MS
                 /\ UnitDtap(KeyPress(k)))
                => d2.state = "WaitingSecondUp"
             /\ (/\ d.target_key = Some(k) /\ d.state = "Idle"
                 /\ d.last_fired_at = Some(COOLDOWN_MS)
                 /\ UnitDtap(KeyPress(k)))
                => d2.state = "WaitingFirstUp"
             /\ (/\ h.target_key = Some(k) /\ h.state = "Idle"
                 /\ h.last_stopped_at = Some(HOLD_DOWN_COOLDOWN_MS)
                 /\ UnitHold(KeyPress(k)))
                => cb'.hold_result = "Start" /\ h2.state = "Held"]_vars

\* both detectors have accepted a press of the bound key when their
\* cooldown anchors had just reached the cooldown
C40_AcceptedAtCooldown ==
    /\ DOUBLE_TAP_DETECTOR[1].target_key = Some("ShiftLeft")
    /\ DOUBLE_TAP_DETECTOR[1].state = "WaitingFirstUp"
    /\ DOUBLE_TAP_DETECTOR[1].state_entered_at = 0
    /\ DOUBLE_TAP_DETECTOR[1].last_fired_at = Some(COOLDOWN_MS)
    /\ HOLD_DOWN_DETECTOR[1].target_key = Some("ShiftLeft")
    /\ HOLD_DOWN_DETECTOR[1].state = "Held"
    /\ HOLD_DOWN_DETECTOR[1].last_stopped_at = Some(HOLD_DOWN_COOLDOWN_MS)

====
